---- MODULE Spec2Model ----
(***************************************************************************)
(* DeeperSeek: the DeepSeek session class of src/DeeperSeek/DeeperSeek.py  *)
(* as a state machine.  One session object, the page it drives (URL,       *)
(* client-side storage) and the caller's operations.  Python strings are   *)
(* tuples of one-character strings; an Optional value is None (the empty   *)
(* tuple) or Some(x) (the one-element tuple <<x>>).  Clock readings are in  *)
(* ticks of half a second, the granularity of the shortest sleep.          *)
(*                                                                         *)
(* find_send_options and find_response_elements are called by the class    *)
(* but defined in neither source file; they are modelled from the locator  *)
(* contract of the design document (absence is an empty answer, no         *)
(* exception).                                                             *)
(***************************************************************************)
EXTENDS Integers, Sequences, FiniteSets, TLC

\* ------------------------------------------------------------------ bounds
\* Largest base timeout (seconds) a caller passes to send_message.
MaxTimeout == 1
\* Operations a caller invokes on one session object, initialize included.
MaxCalls == 2
\* The probe round trip, in ticks, on the pages of ReplySpec.
ProbeLatency == 3
\* The probe round trip, in ticks, on the slow pages of Spec.
SlowProbe == 100
\* Most option toggles find_send_options reports on a page.
MaxOptions == 2
\* Most elements of a page in the locator specification.
MaxDom == 3

\* ------------------------------------------------------- program constants
\* send_message: timeout += 20 if deepthink else 0
DeepthinkSurcharge == 20
\* send_message: timeout += 60 if search else 0
SearchSurcharge == 60
\* _get_response: sleep(0.5) in the start phase is one tick
TicksPerSecond == 2
\* _get_response: sleep(0.5) between start-phase polls, in ticks
StartPollSleep == 1
\* _get_response: sleep(1) between completion-phase polls, in ticks
CompletionPollSleep == 2

\* ------------------------------------------------------------ Python values
None == <<>>

Some(x) == <<x>>

\* bool(o) for an Optional[str]: None and "" are falsy.
Truthy(o) == o # None /\ o[1] # <<>>

\* needle in hay, for strings as tuples of characters (JS String.includes,
\* Python's `in`).
Includes(hay, needle) ==
    \E i \in 0..(Len(hay) - Len(needle)) :
        \A j \in 1..Len(needle) : hay[i + j] = needle[j]

\* --------------------------------------------------------------- the page
RootUrl ==
    <<"h","t","t","p","s",":","/","/","c","h","a","t",".","d","e","e","p","s","e","e","k",".","c","o","m","/">>

\* f"https://chat.deepseek.com/a/chat/s/{chat_id}"
ChatUrl(id) ==
    RootUrl \o <<"a","/","c","h","a","t","/","s","/">> \o id

SignInUrl ==
    RootUrl \o <<"s","i","g","n","_","i","n">>

\* A login page served from another host, as after an identity-provider redirect.
ExternalLoginUrl ==
    <<"h","t","t","p","s",":","/","/","i","d",".","e","x","/","l","o","g","i","n">>

\* JSON.stringify({value: '<token>', __version: '0'})
StoredToken(t) ==
    [value |-> t, version |-> <<"0">>]

RECURSIVE JsLiteral(_)
\* The string a single-quoted JavaScript literal with the characters t
\* between its quotes denotes: a backslash escapes the character after it
\* (\n is a line feed, \t a tab, another letter itself).  t holds no quote
\* and no line terminator and does not end in a backslash.
JsLiteral(t) ==
    IF t = <<>> THEN <<>>
    ELSE IF Head(t) = "\\" /\ Len(t) >= 2
    THEN <<CASE t[2] = "n" -> "\n"
             [] t[2] = "t" -> "\t"
             [] OTHER -> t[2]>> \o JsLiteral(SubSeq(t, 3, Len(t)))
    ELSE <<Head(t)>> \o JsLiteral(Tail(t))

\* ------------------------------------------------------------ input domains
TokenA == <<"t">>

\* a token that holds a backslash
TokenEscaped == <<"a","\\","n">>

EmailA == <<"e">>

PasswordA == <<"p">>

\* The token the site itself stores after a successful form login.
SiteToken == <<"s">>

\* an ordinary id, an id that every URL of the site contains, the empty id
IdX == <<"x","1">>

IdChat == <<"c","h","a","t">>

IdEmpty == <<>>

TokenArgs == {None, Some(<<>>), Some(TokenA)}

EmailArgs == {None, Some(EmailA)}

PasswordArgs == {None, Some(PasswordA)}

ChatIdArgs == {IdX, IdChat, IdEmpty}

Messages == {<<"h","i">>}

\* The messages of ReplySpec: the empty message too.
ReplyMessages == Messages \cup {<<>>}

Themes == {"dark"}

VARIABLES
    obj,                 \* "none" until __init__ returns, then "live"
    _token, _email, _password, _chat_id,
    chat_id,             \* the attribute reset_chat assigns (None: not set)
    _deepthink_enabled, _search_enabled, _initialized,
    _is_active,          \* None until initialize assigns it
    keep_alive,          \* the _keep_alive task: "none", "sleeping", "done"
    pc,                  \* where the operation in flight is suspended
    call,                \* the operation in flight, its arguments, its trace
    result,              \* how the last finished operation ended
    calls,               \* operations invoked so far
    storage,             \* localStorage userToken: None or Some(record)
    theme,               \* localStorage theme preference: None or Some(value)
    now, end_time,       \* the clock and _get_response's deadline, in ticks
    probe_latency,       \* ticks the probe calls of one poll take on this page
    generating_indicator, response_text,
    dom,                 \* the page's elements in document order (LocatorSpec)
    located,             \* the last answer of an element locator
    login_page,          \* the page a classic login is run on (ClassicSpec)
    cf_check,            \* verify_cf on this page: "off" (attempt_cf_bypass
                         \* is false), "ok" (it returns), "raise"
    menu,                \* the profile dropdown's descendants (MenuSpec)
    toggle_clicks        \* per option toggle: the clicks made on it so far
                         \* are odd in number

vars ==
    <<obj, _token, _email, _password, _chat_id, chat_id, _deepthink_enabled,
      _search_enabled, _initialized, _is_active, keep_alive, pc, call, result,
      calls, storage, theme, now, end_time, probe_latency,
      generating_indicator, response_text, dom, located, login_page,
      cf_check, menu, toggle_clicks>>

sessionVars ==
    <<_token, _email, _password, _chat_id, chat_id, _deepthink_enabled,
      _search_enabled, _initialized, _is_active>>

pollVars ==
    <<now, end_time, generating_indicator, response_text>>

\* What a login has done so far: the attempts in order (the method, whether
\* it returned, the token_failed flag it ran with), whether the last attempt
\* located the textbox, whether the forced navigation and recheck were made.
NoLogin ==
    [attempts |-> <<>>, textbox_seen |-> FALSE, rechecked |-> FALSE]

Attempt(method, ok, token_failed) ==
    [method |-> method, ok |-> ok, token_failed |-> token_failed]

\* What an exchange has done so far: the message and the mode it was given,
\* whether the textbox was located, the keystroke batches delivered to the
\* textbox, the option toggles clicked, whether at least two toggles were
\* located, whether the send control was clicked, the modes the call asked
\* for, the side channels looked for, the text extracted, whether it was
\* extracted by the last poll that could begin before the deadline, what the
\* indicator probe had answered in the poll that extracted it, what
\* the side-channel probes answered ("none": not asked), and whether a probe
\* raised in a poll of either phase.
NoSent ==
    [message |-> <<>>, slow_mode |-> FALSE, textbox |-> FALSE,
     typed |-> <<>>, toggles |-> <<>>, located |-> FALSE,
     send_clicked |-> FALSE, deepthink |-> FALSE, search |-> FALSE,
     dt_attempt |-> FALSE, search_attempt |-> FALSE, text |-> None,
     last_chance |-> FALSE, read_under |-> "none", dt_probe |-> "none",
     search_probe |-> "none", poll_raised |-> FALSE]

NoClicks ==
    [deepthink |-> FALSE, search |-> FALSE]

NoCall ==
    [op |-> "none", token_failed |-> FALSE, timeout |-> 0, login |-> NoLogin,
     sent |-> NoSent, page |-> <<>>, url |-> <<>>, used |-> <<>>]

\* kind: "pending" (in flight), "ok" (returned), or the exception that escaped;
\* page: what the operation did to the storage and the document, in order;
\* url: where it navigated; used: the credentials its login gave to the page
\* (the token written to storage, the email and the password typed)
Outcome(op, kind) ==
    [op |-> op, kind |-> kind, msg |-> "", args |-> <<>>, reply |-> None,
     value |-> None, login |-> NoLogin, sent |-> NoSent, after_abort |-> FALSE,
     page |-> <<>>, url |-> <<>>, used |-> <<>>]

\* The operation being invoked follows an initialize that a login error
\* aborted (noted on the outcome of the operations that end at once).
AfterAbort ==
    result.op = "initialize" /\ result.kind = "InvalidCredentials"

NoInitializationCheck ==
    FALSE

\* if not self._initialized: raise MissingInitialization(...), the first
\* statement of every operation but initialize (line 760 and its like)
MissingInitializationCheck ==
    ~_initialized

\* The caller serialises its calls and makes at most MaxCalls of them.
CallerMayInvoke ==
    /\ obj = "live"
    /\ pc = "idle"
    /\ calls < MaxCalls

NotInitialized(op) ==
    /\ result' = Outcome(op, "MissingInitialization")
    /\ calls' = calls + 1
    /\ UNCHANGED <<obj, sessionVars, keep_alive, pc, call, storage, theme,
                   pollVars, probe_latency, dom, located, login_page, cf_check, menu, toggle_clicks>>

\* ---------------------------------------------------------------- __init__
HasCredentialsLoose(t, e, p) ==
    Truthy(t) \/ Truthy(e) \/ Truthy(p)

\* line 57: not (not token and not (email and password))
HasCredentials(t, e, p) ==
    Truthy(t) \/ (Truthy(e) /\ Truthy(p))

Construct(t, e, p, c) ==
    /\ obj = "none"
    /\ IF ~HasCredentials(t, e, p)
       THEN /\ result' = [Outcome("__init__", "MissingCredentials")
                             EXCEPT !.args = <<t, e, p>>]
            /\ UNCHANGED <<obj, sessionVars>>
       ELSE /\ obj' = "live"
            /\ _email' = e
            /\ _password' = p
            /\ _token' = t
            /\ _chat_id' = c
            /\ _deepthink_enabled' = FALSE
            /\ _search_enabled' = FALSE
            /\ _initialized' = FALSE
            /\ result' = [Outcome("__init__", "ok") EXCEPT !.args = <<t, e, p>>]
            /\ UNCHANGED <<chat_id, _is_active>>
    /\ UNCHANGED <<keep_alive, pc, call, calls, storage, theme, pollVars,
                   probe_latency, dom, located, login_page, cf_check, menu, toggle_clicks>>

\* -------------------------------------------------------------- initialize
\* What verify_cf can do on the page (cf_check).
CfAnswers == {"off", "ok", "raise"}

\* lines 126-127
NavigationTarget ==
    IF ~Truthy(_chat_id) THEN RootUrl ELSE ChatUrl(_chat_id[1])

\* What initialize does to the page before it marks the session.
Arrival ==
    <<"get">> \o (IF cf_check # "off" THEN <<"verify_cf">> ELSE <<>>)

ChallengeAbortsOnRaise ==
    cf_check = "raise"

\* lines 129-133: verify_cf runs inside try, and except: pass
ChallengeAborts ==
    FALSE

\* Lines 117-142.  The logger, the virtual display and the browser launch
\* hold no session state; a reentrant call is a caller error and is not made.
Initialize ==
    /\ CallerMayInvoke
    /\ ~_initialized
    /\ calls' = calls + 1
    /\ IF ChallengeAborts
       THEN /\ result' = [Outcome("initialize", "ProbeError") EXCEPT
                             !.page = Arrival, !.url = NavigationTarget]
            /\ UNCHANGED <<_initialized, _is_active, keep_alive, pc, call>>
       ELSE /\ _initialized' = TRUE
            /\ _is_active' = Some(TRUE)
            /\ keep_alive' = "sleeping"
            /\ pc' = IF Truthy(_token) THEN "login" ELSE "login_classic"
            /\ call' = [NoCall EXCEPT !.op = "initialize", !.page = Arrival,
                                      !.url = NavigationTarget]
            /\ result' = Outcome("initialize", "pending")
    /\ UNCHANGED <<obj, _token, _email, _password, _chat_id, chat_id,
                   _deepthink_enabled, _search_enabled, storage, theme,
                   pollVars, probe_latency, dom, located, login_page,
                   cf_check, menu, toggle_clicks>>

KeepAliveContinuesAlways ==
    TRUE

\* line 147: while self._is_active
KeepAliveContinues ==
    _is_active = Some(TRUE)

KeepAlivePageReload ==
    <<"reload">>

\* lines 148-152: the body of the loop issues no probe call (the reload of
\* line 151 is commented out)
KeepAlivePage ==
    <<>>

\* _keep_alive wakes from sleep(300), or the sleep raises (lines 146-154):
\* the task ends once _is_active is false, or with the exception, which is
\* logged.  What it does to the page lands on the operation in flight.
KeepAlive(raises) ==
    /\ keep_alive = "sleeping"
    /\ keep_alive' =
           IF ~raises /\ KeepAliveContinues THEN "sleeping" ELSE "done"
    /\ call' = IF pc # "idle" /\ ~raises
               THEN [call EXCEPT !.page = @ \o KeepAlivePage] ELSE call
    /\ UNCHANGED <<obj, sessionVars, pc, result, calls, storage, theme,
                   pollVars, probe_latency, dom, located, login_page,
                   cf_check, menu, toggle_clicks>>

TeardownCancelling ==
    /\ obj = "live"
    /\ _is_active' = Some(FALSE)
    /\ pc' = "idle"
    /\ call' = NoCall
    /\ result' = IF pc = "idle" THEN result
                 ELSE Outcome(call.op, "CancelledError")
    /\ UNCHANGED <<obj, _token, _email, _password, _chat_id, chat_id,
                   _deepthink_enabled, _search_enabled, _initialized,
                   keep_alive, calls, storage, theme,
                   pollVars, probe_latency, dom, located, login_page, cf_check, menu, toggle_clicks>>

\* __del__ called on the live object (lines 156-159): it assigns _is_active
\* and nothing else; no task is cancelled and the browser is not stopped.
Teardown ==
    /\ obj = "live"
    /\ _is_active' = Some(FALSE)
    /\ UNCHANGED <<obj, _token, _email, _password, _chat_id, chat_id,
                   _deepthink_enabled, _search_enabled, _initialized,
                   keep_alive, pc, call, result, calls, storage, theme,
                   pollVars, probe_latency, dom, located, login_page, cf_check, menu, toggle_clicks>>

\* ------------------------------------------------------------------ _login
\* The return or exception of a login, passed on unchanged by the operation
\* that ran it (initialize or switch_account).
InitializedOnlyOnSuccess(kind) ==
    kind = "ok"

\* Lines 134-142 and 1189-1193: _initialized is assigned once, before the
\* login, and nothing assigns it when the login returns or raises.
InitializedAfterLogin(kind) ==
    _initialized

EndLogin(kind, msg, log, used) ==
    /\ _initialized' = InitializedAfterLogin(kind)
    /\ result' = [Outcome(call.op, kind) EXCEPT !.msg = msg, !.login = log,
                                                !.page = call.page,
                                                !.url = call.url,
                                                !.used = used,
                                                !.args = result.args]
    /\ pc' = "idle"
    /\ call' = NoCall

FallbackNever(e, p) ==
    FALSE

FallbackAllowedLoose(e, p) ==
    Truthy(e) \/ Truthy(p)

\* line 193: if self._email and self._password
FallbackAllowed(e, p) ==
    Truthy(e) /\ Truthy(p)

TokenLoginUnconfirmed(textbox) ==
    TRUE

\* lines 187-190 and 198: the login is successful when wait_for returned
TokenLoginConfirmed(textbox) ==
    textbox

\* Lines 172-198.  textbox: whether wait_for(textbox, timeout = 5) returned.
\* The token is put between quotes in the script's text (line 177).
Login(textbox) ==
    /\ pc = "login"
    /\ _initialized
    /\ storage' = Some(StoredToken(JsLiteral(_token[1])))
    /\ LET log == [call.login EXCEPT
                      !.attempts = Append(@, Attempt("token", textbox, FALSE)),
                      !.textbox_seen = textbox]
           used == Append(call.used, _token[1])
       IN IF TokenLoginConfirmed(textbox)
          THEN EndLogin("ok", "", log, used)
          ELSE IF FallbackAllowed(_email, _password)
               THEN /\ pc' = "login_classic"
                    /\ call' = [call EXCEPT !.token_failed = TRUE,
                                            !.login = log, !.used = used]
                    /\ UNCHANGED <<result, _initialized>>
               ELSE EndLogin("InvalidCredentials",
                        "The token is invalid and no email or password was provided",
                        log, used)
    /\ UNCHANGED <<obj, _token, _email, _password, _chat_id, chat_id,
                   _deepthink_enabled, _search_enabled, _is_active,
                   keep_alive, calls, theme, pollVars, probe_latency, dom,
                   located, login_page, cf_check, menu, toggle_clicks>>

\* ----------------------------------------------------------- _login_classic
\* What the page shows to one run of classic login.
\*   form: "submitted" when the email probe, the password probe and the
\*       submit probe each returned true; else the first step that failed,
\*       by returning false ("..._absent") or by raising ("..._raise")
\*   probe: whether a probe of the outcome check (lines 441-603) raised
\*   url: window.location.href after the submission
\*   markers: a post-login marker is on the page (checks 1-5, lines 481-493)
\*   pw_field: an input[type="password"] is on the page (line 496)
\*   error_text: the trimmed text of the first error element that carries
\*       failure vocabulary, "" when there is none (lines 570-582)
\*   textbox: find_textbox's answer on the page reached by the submission
\*   after: the forced navigation to the chat root and the textbox recheck
\*   stores_token: the site wrote its own token to client-side storage
FormFailures ==
    {"email_absent", "email_raise", "password_absent", "password_raise",
     "button_absent", "button_raise"}

ClassicEnv ==
    [form : {"submitted"},
     probe : {"ok", "raise"},
     url : {RootUrl, SignInUrl, ExternalLoginUrl},
     markers : BOOLEAN,
     pw_field : BOOLEAN,
     error_text : {"", "wrong password"},
     textbox : BOOLEAN,
     after : {"textbox", "no_textbox", "raise"},
     stores_token : BOOLEAN]
    \cup
    [form : FormFailures, probe : {"ok"}, url : {SignInUrl},
     markers : {FALSE}, pw_field : {TRUE}, error_text : {""},
     textbox : {FALSE}, after : {"no_textbox"}, stores_token : {FALSE}]

\* lines 457-463
UrlIndicatesSuccess(u) ==
    \/ Includes(u, <<"/","c","h","a","t">>)
    \/ Includes(u, <<"/","w","e","l","c","o","m","e">>)
    \/ Includes(u, <<"/","d","a","s","h","b","o","a","r","d">>)
    \/ Includes(u, <<"/","h","o","m","e">>)
    \/ ~Includes(u, <<"/","l","o","g","i","n">>)

\* lines 481-498
UiIndicatesSuccess(e) ==
    e.markers \/ ~e.pw_field

\* lines 615, 621, 650, 656
FinalMessage(token_failed) ==
    IF ~token_failed THEN "The email or password is incorrect"
    ELSE "Both token and email/password are incorrect"

\* probes: the probe calls made, in order (the diagnostics of lines 219-250,
\* 596-603 and 631-638, whose answers decide nothing, are left out)
ClassicResult(kind, msg, seen, rechecked, submitted, probes) ==
    [kind |-> kind, msg |-> msg, textbox_seen |-> seen, rechecked |-> rechecked,
     submitted |-> submitted, probes |-> probes]

\* lines 255-435: the probes of a form that is filled and submitted
FormProbes ==
    <<"email", "fill_email", "password", "fill_password", "checkbox", "submit">>

LastResortTrusting(e, token_failed, probes) ==
    ClassicResult("ok", "", e.after = "textbox", TRUE, TRUE,
                  probes \o <<"navigate", "find_textbox">>)

LastResortOnlyWithoutToken(e, token_failed, probes) ==
    IF e.after = "textbox" /\ ~token_failed
    THEN ClassicResult("ok", "", TRUE, TRUE, TRUE,
                       probes \o <<"navigate", "find_textbox">>)
    ELSE ClassicResult("InvalidCredentials", FinalMessage(token_failed), FALSE,
                       ~token_failed, TRUE,
                       IF token_failed THEN probes
                       ELSE probes \o <<"navigate", "find_textbox">>)

\* lines 605-622 and 640-657: force-navigate to the chat root, recheck.
\* probes: the probe calls made before.
LastResort(e, token_failed, probes) ==
    IF e.after = "textbox"
    THEN ClassicResult("ok", "", TRUE, TRUE, TRUE,
                       probes \o <<"navigate", "find_textbox">>)
    ELSE ClassicResult("InvalidCredentials", FinalMessage(token_failed), FALSE,
                       TRUE, TRUE,
                       probes \o (IF e.after = "raise" THEN <<"navigate">>
                                  ELSE <<"navigate", "find_textbox">>))

\* lines 505-564: the page after a login classified as successful
Landed(e, probes) ==
    ClassicResult("ok", "", e.textbox \/ e.after = "textbox", FALSE, TRUE,
                  probes \o <<"find_textbox">>
                         \o (IF e.textbox THEN <<>> ELSE <<"start_chat">>)
                         \o <<"find_textbox">>)

FormProbeUnchecked(answer) ==
    answer = "raise"

\* lines 273-286, 307-320, 428-435: a form probe that answers false raises
\* InvalidCredentials as one that raises does
FormProbeFailed(answer) ==
    answer \in {"absent", "raise"}

\* lines 276 and 310: the values typed into the form, self._email once the
\* email field was focused and self._password once the password field was
FormFilled(probes) ==
    (IF \E i \in 1..Len(probes) : probes[i] = "fill_email"
     THEN _email ELSE <<>>)
    \o (IF \E i \in 1..Len(probes) : probes[i] = "fill_password"
        THEN _password ELSE <<>>)

\* Lines 216-659: how one run of classic login ends on page e.
LoginClassicOutcome(e, token_failed) ==
    IF \E a \in {"absent", "raise"} :
           e.form = "email_" \o a /\ FormProbeFailed(a)
    THEN ClassicResult("InvalidCredentials", "Could not find email input field",
                       FALSE, FALSE, FALSE, <<"email">>)
    ELSE IF \E a \in {"absent", "raise"} :
                e.form = "password_" \o a /\ FormProbeFailed(a)
    THEN ClassicResult("InvalidCredentials",
                       "Could not find password input field", FALSE, FALSE,
                       FALSE, <<"email", "fill_email", "password">>)
    ELSE IF \E a \in {"absent", "raise"} :
                e.form = "button_" \o a /\ FormProbeFailed(a)
    THEN ClassicResult("InvalidCredentials",
                       "Could not find or click login button", FALSE, FALSE,
                       FALSE, FormProbes)
    ELSE IF e.probe = "raise"
    THEN LastResort(e, token_failed, FormProbes \o <<"href">>)
    ELSE IF UrlIndicatesSuccess(e.url)
    THEN Landed(e, FormProbes \o <<"href", "url_check">>)
    ELSE IF UiIndicatesSuccess(e)
    THEN Landed(e, FormProbes \o <<"href", "url_check", "ui_check">>)
    ELSE IF e.error_text # ""
    THEN ClassicResult("InvalidCredentials",
                       "Login error: " \o e.error_text, FALSE, FALSE, TRUE,
                       FormProbes \o <<"href", "url_check", "ui_check",
                                       "error_text">>)
    ELSE LastResort(e, token_failed,
                    FormProbes \o <<"href", "url_check", "ui_check",
                                    "error_text">>)

LoginClassic(e) ==
    /\ pc = "login_classic"
    /\ _initialized
    /\ LET r == LoginClassicOutcome(e, call.token_failed)
       IN /\ storage' = IF r.kind = "ok" /\ e.stores_token
                        THEN Some(StoredToken(SiteToken)) ELSE storage
          /\ EndLogin(r.kind, r.msg,
                      [attempts |-> Append(call.login.attempts,
                                           Attempt("classic", r.kind = "ok",
                                                   call.token_failed)),
                       textbox_seen |-> r.textbox_seen,
                       rechecked |-> r.rechecked],
                      call.used \o FormFilled(r.probes))
    /\ UNCHANGED <<obj, _token, _email, _password, _chat_id, chat_id,
                   _deepthink_enabled, _search_enabled, _is_active,
                   keep_alive, calls, theme, pollVars, probe_latency, dom,
                   located, login_page, cf_check, menu, toggle_clicks>>

\* ---------------------------------------------------------- retrieve_token
\* Lines 717-724.  JSON.parse(null).value throws when no token is stored.
RetrieveToken ==
    /\ CallerMayInvoke
    /\ IF MissingInitializationCheck
       THEN NotInitialized("retrieve_token")
       ELSE /\ result' = IF storage = None
                         THEN [Outcome("retrieve_token", "ProbeError")
                                  EXCEPT !.after_abort = AfterAbort]
                         ELSE [Outcome("retrieve_token", "ok")
                                  EXCEPT !.value = Some(storage[1].value),
                                         !.after_abort = AfterAbort]
            /\ calls' = calls + 1
            /\ UNCHANGED <<obj, sessionVars, keep_alive, pc, call, storage,
                           theme, pollVars, probe_latency, dom, located, login_page, cf_check, menu, toggle_clicks>>

\* ------------------------------------------------------------------ logout
LogoutPageReloadOnly ==
    <<"reload">>

\* lines 1144-1149: localStorage.removeItem('userToken'), then reload()
LogoutPage ==
    <<"removeItem", "reload">>

\* The stored token after the page effects of an operation.
StorageAfter(effects) ==
    IF \E i \in 1..Len(effects) : effects[i] = "removeItem"
    THEN None ELSE storage

\* Lines 1140-1150.
Logout ==
    /\ CallerMayInvoke
    /\ IF MissingInitializationCheck
       THEN NotInitialized("logout")
       ELSE /\ storage' = StorageAfter(LogoutPage)
            /\ result' = [Outcome("logout", "ok")
                             EXCEPT !.after_abort = AfterAbort,
                                    !.page = LogoutPage]
            /\ calls' = calls + 1
            /\ UNCHANGED <<obj, sessionVars, keep_alive, pc, call, theme,
                           pollVars, probe_latency, dom, located, login_page, cf_check, menu, toggle_clicks>>

\* ---------------------------------------------------------- switch_account
SwitchHasCredentialsTokenOnly(t, e, p) ==
    Truthy(t)

\* line 1177: not (not token and not (email and password))
SwitchHasCredentials(t, e, p) ==
    Truthy(t) \/ (Truthy(e) /\ Truthy(p))

InstalledUnlessAbsent(given, held) ==
    IF given = None THEN held ELSE given

\* lines 1186-1188: self._token = token, and so for email and password;
\* given: the argument, held: the attribute's value before
Installed(given, held) ==
    given

\* Lines 1173-1193: validate, logout, install the credentials, log in.
SwitchAccount(t, e, p) ==
    /\ CallerMayInvoke
    /\ IF MissingInitializationCheck
       THEN NotInitialized("switch_account")
       ELSE IF ~SwitchHasCredentials(t, e, p)
       THEN /\ result' = [Outcome("switch_account", "MissingCredentials")
                             EXCEPT !.args = <<t, e, p>>]
            /\ calls' = calls + 1
            /\ UNCHANGED <<obj, sessionVars, keep_alive, pc, call, storage,
                           theme, pollVars, probe_latency, dom, located, login_page, cf_check, menu, toggle_clicks>>
       ELSE /\ storage' = StorageAfter(LogoutPage)
            /\ _token' = Installed(t, _token)
            /\ _email' = Installed(e, _email)
            /\ _password' = Installed(p, _password)
            /\ pc' = IF Truthy(_token') THEN "login" ELSE "login_classic"
            /\ call' = [NoCall EXCEPT !.op = "switch_account",
                                      !.page = LogoutPage]
            /\ result' = [Outcome("switch_account", "pending")
                             EXCEPT !.args = <<t, e, p>>]
            /\ calls' = calls + 1
            /\ UNCHANGED <<obj, _chat_id, chat_id, _deepthink_enabled,
                           _search_enabled, _initialized, _is_active,
                           keep_alive, theme, pollVars, probe_latency, dom, located, login_page, cf_check, menu, toggle_clicks>>

\* ------------------------------------------------------------- switch_chat
\* Lines 1246-1269.  landing: the URL the page shows after the navigation
\* (the route asked for, or where the site redirected to); textbox: whether
\* wait_for(textbox, timeout = 5) returned.
Landings(id) ==
    {ChatUrl(id), RootUrl, SignInUrl}

SwitchChatOutcomeUnchecked(id, landing, textbox) ==
    IF ~textbox THEN "CouldNotFindElement" ELSE "ok"

SwitchChatOutcome(id, landing, textbox) ==
    IF ~textbox THEN "CouldNotFindElement"
    ELSE IF ~Includes(landing, id) THEN "InvalidChatID"
    ELSE "ok"

SwitchChat(id, landing, textbox) ==
    /\ CallerMayInvoke
    /\ IF MissingInitializationCheck
       THEN NotInitialized("switch_chat")
       ELSE /\ LET kind == SwitchChatOutcome(id, landing, textbox)
               IN /\ result' = [Outcome("switch_chat", kind)
                                   EXCEPT !.args = <<id, landing, textbox,
                                                     _chat_id>>,
                                          !.after_abort = AfterAbort]
                  /\ _chat_id' = IF kind = "ok" THEN Some(id) ELSE _chat_id
            /\ calls' = calls + 1
            /\ UNCHANGED <<obj, _token, _email, _password, chat_id,
                           _deepthink_enabled, _search_enabled, _initialized,
                           _is_active, keep_alive, pc, call, storage, theme,
                           pollVars, probe_latency, dom, located, login_page, cf_check, menu, toggle_clicks>>

\* ------------------------------------------------------------ switch_theme
\* Lines 1283-1294: store the preference, reload.
SwitchTheme(th) ==
    /\ CallerMayInvoke
    /\ IF MissingInitializationCheck
       THEN NotInitialized("switch_theme")
       ELSE /\ theme' = Some(th)
            /\ result' = [Outcome("switch_theme", "ok")
                             EXCEPT !.after_abort = AfterAbort]
            /\ calls' = calls + 1
            /\ UNCHANGED <<obj, sessionVars, keep_alive, pc, call, storage,
                           pollVars, probe_latency, dom, located, login_page, cf_check, menu, toggle_clicks>>

\* -------------------------------------------------------------- reset_chat
\* Lines 1124-1130.  button: whether select(reset_chat_button) returned an
\* element (the selector is None in selectors.py; what select does with it
\* is the probe's business).  The assignment is to self.chat_id.
ModeClearedByReset(flag) ==
    FALSE

\* lines 1127-1130: reset_chat assigns neither mode flag
ModeAfterReset(flag) ==
    flag

ResetChat(button) ==
    /\ CallerMayInvoke
    /\ IF MissingInitializationCheck
       THEN NotInitialized("reset_chat")
       ELSE /\ chat_id' = IF button THEN Some(<<>>) ELSE chat_id
            /\ result' = [Outcome("reset_chat",
                                     IF button THEN "ok" ELSE "ProbeError")
                             EXCEPT !.after_abort = AfterAbort]
            /\ calls' = calls + 1
            /\ _deepthink_enabled' =
                   IF button THEN ModeAfterReset(_deepthink_enabled)
                   ELSE _deepthink_enabled
            /\ _search_enabled' =
                   IF button THEN ModeAfterReset(_search_enabled)
                   ELSE _search_enabled
            /\ UNCHANGED <<obj, _token, _email, _password, _chat_id,
                           _initialized, _is_active, keep_alive, pc, call,
                           storage, theme, pollVars, probe_latency, dom,
                           located, login_page, cf_check, menu, toggle_clicks>>

\* ------------------------------------------------------------ delete_chats
\* Lines 1204-1230.  page: "probe_error" when a select of the profile button,
\* the dropdown or the confirmation control raises, "no_item" when the
\* dropdown holds no "Delete all chats" descendant, "ok" otherwise.
\* lines 1206-1227: the controls clicked, in order
DeleteClicks(page) ==
    CASE page = "probe_error" -> <<>>
      [] page = "no_item" -> <<"profile", "dropdown">>
      [] OTHER -> <<"profile", "dropdown", "item", "confirm">>

DeleteChats(page) ==
    /\ CallerMayInvoke
    /\ IF MissingInitializationCheck
       THEN NotInitialized("delete_chats")
       ELSE /\ result' = [Outcome("delete_chats",
                                 CASE page = "probe_error" -> "ProbeError"
                                   [] page = "no_item" -> "CouldNotFindElement"
                                   [] OTHER -> "ok")
                             EXCEPT !.after_abort = AfterAbort,
                                    !.page = DeleteClicks(page)]
            /\ calls' = calls + 1
            /\ UNCHANGED <<obj, sessionVars, keep_alive, pc, call, storage,
                           theme, pollVars, probe_latency, dom, located, login_page, cf_check, menu, toggle_clicks>>

\* ------------------------------------------------------------ reply texts
\* "the server is busy. please try again later." (line 989)
BusyMessage ==
    <<"t","h","e"," ","s","e","r","v","e","r"," ","i","s"," ","b","u","s","y","."," ","p","l","e","a","s","e"," ","t","r","y"," ","a","g","a","i","n"," ","l","a","t","e","r",".">>

\* The phrase as the site capitalises it.
BusyCanonical ==
    <<"T","h","e"," ","s","e","r","v","e","r"," ","i","s"," ","b","u","s","y","."," ","P","l","e","a","s","e"," ","t","r","y"," ","a","g","a","i","n"," ","l","a","t","e","r",".">>

\* A reply that quotes the phrase.
BusyQuoted ==
    <<"H","e"," ","s","a","i","d",":"," ">> \o BusyCanonical

Hello == <<"H","i">>

\* What the text extraction of one poll can return: null, "", or a text.
Extractions ==
    {None, Some(<<>>), Some(Hello), Some(BusyMessage), Some(BusyCanonical),
     Some(BusyQuoted)}

UpperCase ==
    <<"A","B","C","D","E","F","G","H","I","J","K","L","M","N","O","P","Q","R","S","T","U","V","W","X","Y","Z">>

LowerCase ==
    <<"a","b","c","d","e","f","g","h","i","j","k","l","m","n","o","p","q","r","s","t","u","v","w","x","y","z">>

LowerChar(c) ==
    IF \E i \in 1..Len(UpperCase) : UpperCase[i] = c
    THEN LowerCase[CHOOSE i \in 1..Len(UpperCase) : UpperCase[i] = c]
    ELSE c

\* str.lower()
Lower(text) ==
    [i \in 1..Len(text) |-> LowerChar(text[i])]

IsBusyContains(text) ==
    Includes(Lower(text), BusyMessage)

\* line 989: response_text.lower() == "the server is busy. please try again later."
IsBusy(text) ==
    Lower(text) = BusyMessage

\* ------------------------------------------------------ _find_child_by_text
\* line 666: depth_limit: int = 10
DepthLimit == 10

\* "Delete all chats" (line 1216)
DeleteAllChats ==
    <<"D","e","l","e","t","e"," ","a","l","l"," ","c","h","a","t","s">>

\* A menu is the dropdown's descendants in document order, each with its
\* depth below the dropdown (1 for a child) and the text of its own text
\* nodes.  The descendants of node p (0: the dropdown itself) are the nodes
\* after it up to the next one that is no deeper.
DepthOf(m, p) ==
    IF p = 0 THEN 0 ELSE m[p].depth

SubtreeEnd(m, p) ==
    LET stops == {j \in (p + 1)..Len(m) : m[j].depth <= DepthOf(m, p)}
    IN IF stops = {} THEN Len(m)
       ELSE (CHOOSE j \in stops : \A k \in stops : j <= k) - 1

\* parent.children, in document order
Children(m, p) ==
    LET kids == {j \in (p + 1)..SubtreeEnd(m, p) :
                    m[j].depth = DepthOf(m, p) + 1}
    IN [n \in 1..Cardinality(kids) |->
           CHOOSE j \in kids : Cardinality({k \in kids : k <= j}) = n]

RECURSIVE Joined(_, _, _)
\* the texts of nodes from..to of m, concatenated
Joined(m, from, to) ==
    IF from > to THEN <<>> ELSE m[from].text \o Joined(m, from + 1, to)

\* child.text_all: the text of the element and of all its descendants
TextAll(m, p) ==
    Joined(m, p, SubtreeEnd(m, p))

\* line 691: child.text_all.lower() == text.lower()
TextMatches(m, p, text) ==
    Lower(TextAll(m, p)) = Lower(text)

DescendsAlways(depth_limit) ==
    TRUE

\* line 694: if depth_limit
Descends(depth_limit) ==
    depth_limit # 0

RECURSIVE FindChildByText(_, _, _, _)
RECURSIVE ScanChildren(_, _, _, _)
\* lines 690-697: the loop over the children kids that are left
ScanChildren(m, kids, text, depth_limit) ==
    IF kids = <<>> THEN 0
    ELSE LET child == Head(kids)
             found == IF Descends(depth_limit)
                      THEN FindChildByText(m, child, text, depth_limit - 1)
                      ELSE 0
         IN IF TextMatches(m, child, text) THEN child
            ELSE IF found # 0 THEN found
            ELSE ScanChildren(m, Tail(kids), text, depth_limit)

\* Lines 689-703 with in_depth = True: the node returned, 0 for None.
FindChildByText(m, parent, text, depth_limit) ==
    ScanChildren(m, Children(m, parent), text, depth_limit)

\* _find_child_by_text called on the dropdown as delete_chats calls it.
LocateMenuItem ==
    /\ _initialized
    /\ pc = "idle"
    /\ menu # None
    /\ located' = [located EXCEPT
                      !.called = TRUE,
                      !.handle = FindChildByText(menu[1], 0, DeleteAllChats,
                                                 DepthLimit)]
    /\ UNCHANGED <<obj, sessionVars, keep_alive, pc, call, result, calls,
                   storage, theme, pollVars, probe_latency, dom, login_page,
                   cf_check, menu, toggle_clicks>>

\* lines 1214-1220: the search from the dropdown with the default limit
MenuAnswer(m) ==
    IF FindChildByText(m, 0, DeleteAllChats, DepthLimit) = 0
    THEN "no_item" ELSE "ok"

\* The menus delete_chats is run on: the item, with text label, hangs at
\* depth d below the dropdown under d - 1 wrappers; padded wrappers hold a
\* further text after the item; a "Settings" entry may come first and a
\* second "Delete all chats" entry, a child of the dropdown, last.
MenuNode(depth, text) ==
    [depth |-> depth, text |-> text]

MenuLabels ==
    {DeleteAllChats,
     <<"D","E","L","E","T","E"," ","A","L","L"," ","C","H","A","T","S">>,
     <<"D","e","l","e","t","e"," ","a","l","l">>}

Menu(d, label, padded, lead, trail) ==
    (IF lead THEN <<MenuNode(1, <<"S","e","t","t","i","n","g","s">>)>>
     ELSE <<>>)
    \o [k \in 1..(d - 1) |-> MenuNode(k, <<>>)]
    \o <<MenuNode(d, label)>>
    \o (IF padded THEN [k \in 1..(d - 1) |-> MenuNode(d + 1 - k, <<"x">>)]
        ELSE <<>>)
    \o (IF trail THEN <<MenuNode(1, DeleteAllChats)>> ELSE <<>>)

Menus ==
    {Menu(d, label, padded, lead, trail) :
        d \in 1..(DepthLimit + 2), label \in MenuLabels, padded \in BOOLEAN,
        lead \in BOOLEAN, trail \in BOOLEAN}

\* ------------------------------------------------------------ send_message
Timeouts == 0..MaxTimeout

\* The number of option toggles find_send_options reports.
SendOptions == 0..MaxOptions

EffectiveTimeoutNoSearch(timeout, deepthink, search) ==
    timeout + (IF deepthink THEN DeepthinkSurcharge ELSE 0)

\* lines 763-764
EffectiveTimeout(timeout, deepthink, search) ==
    timeout + (IF deepthink THEN DeepthinkSurcharge ELSE 0)
            + (IF search THEN SearchSurcharge ELSE 0)

KeystrokesSkippingLast(message, slow_mode) ==
    IF slow_mode THEN [i \in 1..(Len(message) - 1) |-> <<message[i]>>]
    ELSE <<message>>

\* lines 775-780: one send_keys per character in slow mode, else one in all
Keystrokes(message, slow_mode) ==
    IF slow_mode THEN [i \in 1..Len(message) |-> <<message[i]>>]
    ELSE <<message>>

ToggleClicksUnconditional(options, deepthink, search) ==
    IF options >= 2 THEN <<"deepthink", "search">> ELSE <<>>

\* lines 786-794: the toggles clicked, in order
ToggleClicks(options, deepthink, search) ==
    IF options >= 2
    THEN (IF deepthink # _deepthink_enabled /\ options > 0
          THEN <<"deepthink">> ELSE <<>>)
         \o (IF search # _search_enabled /\ options > 1
             THEN <<"search">> ELSE <<>>)
    ELSE <<>>

\* Lines 898-904: the deadline is taken on entry; the clock of the exchange
\* starts at 0 there.  find_response_elements returns and its answer is
\* unused.  base is the caller's timeout argument, timeout the one passed on.
StartResponse(op, base, timeout, trace) ==
    /\ pc' = "poll_start"
    /\ call' = [NoCall EXCEPT !.op = op, !.timeout = base, !.sent = trace]
    /\ result' = Outcome(op, "pending")
    /\ now' = 0
    /\ end_time' = timeout * TicksPerSecond
    /\ generating_indicator' = FALSE
    /\ response_text' = None

SendControlUnchecked(button) ==
    FALSE

\* lines 798-801: if not send_button: raise CouldNotFindElement
SendControlMissing(button) ==
    ~button

\* Lines 760-806.  textbox, button: whether find_textbox and find_send_button
\* returned a handle; options: the length of find_send_options' answer.
SendMessage(message, slow_mode, deepthink, search, timeout, textbox, options, button) ==
    /\ CallerMayInvoke
    /\ IF MissingInitializationCheck
       THEN NotInitialized("send_message")
       ELSE /\ calls' = calls + 1
            /\ UNCHANGED <<obj, _token, _email, _password, _chat_id, chat_id,
                           _initialized, _is_active, keep_alive, storage,
                           theme, probe_latency, dom, located, login_page, cf_check, menu>>
            /\ IF ~textbox
               THEN /\ result' = Outcome("send_message", "CouldNotFindElement")
                    /\ UNCHANGED <<_deepthink_enabled, _search_enabled, pc,
                                   call, pollVars, toggle_clicks>>
               ELSE LET clicks == ToggleClicks(options, deepthink, search)
                        trace == [NoSent EXCEPT
                                    !.message = message,
                                    !.slow_mode = slow_mode,
                                    !.textbox = TRUE,
                                    !.typed = Keystrokes(message, slow_mode),
                                    !.toggles = clicks,
                                    !.located = options >= 2,
                                    !.send_clicked = button,
                                    !.deepthink = deepthink,
                                    !.search = search]
                    IN /\ toggle_clicks' =
                              [t \in {"deepthink", "search"} |->
                                  toggle_clicks[t]
                                      # (\E i \in 1..Len(clicks) : clicks[i] = t)]
                       /\ _deepthink_enabled' =
                              IF \E i \in 1..Len(clicks) : clicks[i] = "deepthink"
                              THEN deepthink ELSE _deepthink_enabled
                       /\ _search_enabled' =
                              IF \E i \in 1..Len(clicks) : clicks[i] = "search"
                              THEN search ELSE _search_enabled
                       /\ IF SendControlMissing(button)
                          THEN /\ result' =
                                    [Outcome("send_message", "CouldNotFindElement")
                                        EXCEPT !.sent = trace]
                               /\ UNCHANGED <<pc, call, pollVars>>
                          ELSE StartResponse("send_message", timeout,
                                   EffectiveTimeout(timeout, deepthink, search),
                                   trace)

\* Lines 825-832.  toolbar: whether select_all(response_toolbar) returned a
\* non-empty list whose last element has a second child (the selector is None
\* in selectors.py).
RegenerateResponse(timeout, toolbar) ==
    /\ CallerMayInvoke
    /\ IF MissingInitializationCheck
       THEN NotInitialized("regenerate_response")
       ELSE /\ calls' = calls + 1
            /\ UNCHANGED <<obj, sessionVars, keep_alive, storage, theme,
                           probe_latency, dom, located, login_page, cf_check, menu, toggle_clicks>>
            /\ IF ~toolbar
               THEN /\ result' = Outcome("regenerate_response", "ProbeError")
                    /\ UNCHANGED <<pc, call, pollVars>>
               ELSE StartResponse("regenerate_response", timeout, timeout,
                                  NoSent)

\* ----------------------------------------------------------- _get_response
Indicators == {"present", "absent", "raise"}

BeforeDeadlineAlways ==
    TRUE

\* lines 911 and 938: while time() < end_time
BeforeDeadline ==
    now < end_time

PollFailureEscapesStart(phase) ==
    phase = "start"

\* lines 912-927 and 939-983: the probes of a poll run inside try, and the
\* handler (except: / except Exception) sleeps; no exception leaves a loop
PollFailureEscapes(phase) ==
    FALSE

\* An exception leaving _get_response from inside a loop.
PollRaises ==
    /\ result' = [Outcome(call.op, "ProbeError") EXCEPT
                      !.sent = [call.sent EXCEPT !.poll_raised = TRUE]]
    /\ pc' = "idle"
    /\ call' = NoCall
    /\ generating_indicator' = FALSE
    /\ response_text' = None
    /\ UNCHANGED <<now, end_time>>

\* Lines 911-927, one pass of the start-phase loop.  indicator: what the
\* loading-indicator probe answered.
PollStart(indicator) ==
    /\ pc = "poll_start"
    /\ IF BeforeDeadline
       THEN IF indicator = "present"
            THEN /\ generating_indicator' = TRUE
                 /\ pc' = "poll_complete"
                 /\ now' = now + probe_latency
                 /\ UNCHANGED <<call, result, end_time, response_text>>
            ELSE IF indicator = "raise" /\ PollFailureEscapes("start")
            THEN PollRaises
            ELSE /\ now' = now + probe_latency + StartPollSleep
                 /\ call' = [call EXCEPT !.sent.poll_raised =
                                 @ \/ indicator = "raise"]
                 /\ UNCHANGED <<generating_indicator, pc, result, end_time,
                                response_text>>
       ELSE /\ pc' = "poll_complete"
            /\ UNCHANGED <<now, generating_indicator, call, result, end_time,
                           response_text>>
    /\ UNCHANGED <<obj, sessionVars, keep_alive, calls, storage, theme,
                   probe_latency, dom, located, login_page, cf_check, menu, toggle_clicks>>

\* Leaving the completion loop: the clock is not read again.
LeaveLoops ==
    /\ pc' = "finish"
    /\ now' = 0
    /\ end_time' = 0

MayExtractUnlessRaised(indicator) ==
    indicator # "raise"

\* line 947: if not is_still_generating
MayExtract(indicator) ==
    indicator = "absent"

\* Lines 938-983, one pass of the completion-phase loop.  text_raises: the
\* extraction probe raised; text: what it returned otherwise.
PollComplete(indicator, text_raises, text) ==
    /\ pc = "poll_complete"
    /\ IF BeforeDeadline
       THEN IF MayExtract(indicator) /\ ~text_raises
            THEN /\ response_text' = text
                 /\ IF Truthy(text)
                    THEN /\ LeaveLoops
                         /\ call' = [call EXCEPT
                                !.sent.last_chance =
                                    now + probe_latency + CompletionPollSleep
                                        >= end_time,
                                !.sent.read_under = indicator]
                    ELSE /\ now' = now + probe_latency + CompletionPollSleep
                         /\ UNCHANGED <<pc, end_time, call>>
                 /\ UNCHANGED <<result, generating_indicator>>
            ELSE IF (indicator = "raise" \/ MayExtract(indicator))
                    /\ PollFailureEscapes("complete")
            THEN PollRaises
            ELSE /\ now' = now + probe_latency + CompletionPollSleep
                 /\ call' = [call EXCEPT !.sent.poll_raised =
                                 @ \/ indicator = "raise"
                                   \/ MayExtract(indicator)]
                 /\ UNCHANGED <<pc, end_time, response_text, result,
                                generating_indicator>>
       ELSE /\ LeaveLoops
            /\ UNCHANGED <<call, response_text, result,
                           generating_indicator>>
    /\ UNCHANGED <<obj, sessionVars, keep_alive, calls, storage, theme,
                   probe_latency, dom, located, login_page, cf_check, menu, toggle_clicks>>

\* What the side-channel probes can answer.
DeepthinkProbes == {"raise", "null", "info"}

SearchProbes == {"raise", "null", "empty", "list"}

Thought == <<"h","m","m">>

SearchItem ==
    [image_url |-> <<>>, website |-> <<"w">>, date |-> <<"d">>, index |-> 1,
     title |-> <<"t">>, description |-> <<>>]

DeepthinkWantedByCall ==
    call.sent.deepthink

\* line 998: if self._deepthink_enabled
DeepthinkWanted ==
    _deepthink_enabled

\* line 1041: if self._search_enabled
SearchWanted ==
    _search_enabled

\* lines 1105-1111
Response(text, dt, sr) ==
    [text |-> text,
     chat_id |-> _chat_id,
     deepthink_duration |->
         IF DeepthinkWanted /\ dt = "info" THEN Some(3) ELSE None,
     deepthink_content |->
         IF DeepthinkWanted /\ dt = "info" THEN Some(Thought) ELSE None,
     search_results |->
         IF SearchWanted /\ sr = "list" THEN Some(<<SearchItem>>) ELSE None]

SideChannelEscapesUncaught(dt, sr) ==
    \/ DeepthinkWanted /\ dt = "raise"
    \/ SearchWanted /\ sr = "raise"

\* lines 999-1038 and 1042-1103: each extraction runs inside try / except
\* Exception, which logs; no exception of a side-channel probe escapes
SideChannelEscapes(dt, sr) ==
    FALSE

RaiseTimeout(op, trace) ==
    [Outcome(op, "TimeoutError") EXCEPT !.sent = trace]

\* lines 985-987: return None
ReturnNone(op, trace) ==
    [Outcome(op, "ok") EXCEPT !.sent = trace]

\* Lines 985-1114, after the loops.  dt, sr: the side-channel probes' answers.
Finish(dt, sr) ==
    /\ pc = "finish"
    /\ LET trace == [call.sent EXCEPT
                        !.dt_attempt = DeepthinkWanted,
                        !.search_attempt = SearchWanted,
                        !.dt_probe = IF DeepthinkWanted THEN dt ELSE "none",
                        !.search_probe = IF SearchWanted THEN sr ELSE "none"]
       IN result' =
              IF ~Truthy(response_text)
              THEN ReturnNone(call.op, call.sent)
              ELSE IF IsBusy(response_text[1])
              THEN [Outcome(call.op, "ServerDown") EXCEPT
                       !.sent = [call.sent EXCEPT !.text = response_text]]
              ELSE IF SideChannelEscapes(dt, sr)
              THEN [Outcome(call.op, "ProbeError") EXCEPT
                       !.sent = [trace EXCEPT !.text = response_text]]
              ELSE [Outcome(call.op, "ok") EXCEPT
                       !.reply = Some(Response(response_text[1], dt, sr)),
                       !.sent = [trace EXCEPT !.text = response_text]]
    /\ pc' = "idle"
    /\ call' = NoCall
    /\ generating_indicator' = FALSE
    /\ response_text' = None
    /\ UNCHANGED <<obj, sessionVars, keep_alive, calls, storage, theme, now,
                   end_time, probe_latency, dom, located, login_page, cf_check, menu, toggle_clicks>>

\* ------------------------------------------------------------ find_textbox
\* An element: its tag, its id and its class attribute ("" when it has
\* none), whether it is contenteditable="true", whether its placeholder
\* holds "message", "chat" or "ask", its distance from the bottom of the
\* viewport (window.innerHeight - rect.bottom) and its rendered area.
Element(tag, id, cls, editable, keyword, gap, area) ==
    [tag |-> tag, id |-> id, cls |-> cls, editable |-> editable,
     keyword |-> keyword, gap |-> gap, area |-> area, role |-> FALSE,
     send_text |-> FALSE, send_attr |-> FALSE, icon |-> FALSE, dist |-> 0]

\* A control: whether it has role="button", whether its text holds "send" or
\* is one of the arrows, whether its aria-label or title holds "send",
\* whether it has an svg or img descendant, and its distance from the top
\* right corner of the first textarea.
Control(tag, id, cls, role, send_text, send_attr, icon, dist) ==
    [tag |-> tag, id |-> id, cls |-> cls, editable |-> FALSE,
     keyword |-> FALSE, gap |-> 0, area |-> 0, role |-> role,
     send_text |-> send_text, send_attr |-> send_attr, icon |-> icon,
     dist |-> dist]

Elements ==
    {Element("div", "", "", FALSE, FALSE, 0, 100),
     Element("div", "", "", TRUE, FALSE, 0, 100),
     Element("div", "box", "", TRUE, FALSE, 0, 100),
     Element("div", "", "ed", TRUE, FALSE, 0, 100),
     Element("textarea", "", "", FALSE, TRUE, 0, 100),
     Element("textarea", "", "", FALSE, FALSE, 0, 100),
     Element("textarea", "big", "", FALSE, FALSE, 0, 300),
     Element("textarea", "top", "", FALSE, FALSE, 2, 100),
     Control("button", "", "", FALSE, TRUE, FALSE, FALSE, 2),
     Control("button", "", "", FALSE, FALSE, TRUE, FALSE, 3),
     Control("button", "go", "", FALSE, FALSE, FALSE, TRUE, 1),
     Control("div", "", "", TRUE, FALSE, FALSE, TRUE, 2)}

Doms ==
    UNION {[1..n -> Elements] : n \in 0..MaxDom}

\* What find_textbox (called, handle) and find_send_button (button_called,
\* button_handle) last answered: the index of the element, 0 for None.
NotLocated ==
    [called |-> FALSE, handle |-> 0, button_called |-> FALSE,
     button_handle |-> 0]

\* tag + (id ? '#' + id : '') + (className ? '.' + first class : '')
SelectorOf(el) ==
    [tag |-> el.tag, id |-> el.id, cls |-> el.cls]

Matches(el, sel) ==
    /\ el.tag = sel.tag
    /\ sel.id = "" \/ el.id = sel.id
    /\ sel.cls = "" \/ el.cls = sel.cls

\* The first in document order of the elements whose indices are in hits,
\* 0 when there is none.
First(hits) ==
    IF hits = {} THEN 0
    ELSE CHOOSE i \in hits : \A j \in hits : i <= j

\* lines 1344-1346, times 100: (innerHeight - bottom) + height * width * 0.01
Score(el) ==
    100 * el.gap + el.area

\* lines 1340-1349: the textarea first after the ascending sort by score
BestTextarea(d) ==
    LET IsBest(i) ==
            /\ d[i].tag = "textarea"
            /\ \A j \in 1..Len(d) :
                   d[j].tag = "textarea" =>
                       \/ Score(d[i]) < Score(d[j])
                       \/ (Score(d[i]) = Score(d[j]) /\ i <= j)
    IN IF \E i \in 1..Len(d) : IsBest(i)
       THEN CHOOSE i \in 1..Len(d) : IsBest(i)
       ELSE 0

\* lines 1319-1366: the element the page-side script builds its selector
\* from, 0 when the script returns null
ScriptChoice(d) ==
    LET chatInput ==
            First({i \in 1..Len(d) : d[i].tag = "textarea" /\ d[i].keyword})
        bestDiv ==
            First({i \in 1..Len(d) : d[i].tag = "div" /\ d[i].editable})
    IN IF chatInput # 0 THEN chatInput
       ELSE IF BestTextarea(d) # 0 THEN BestTextarea(d)
       ELSE bestDiv

\* select(selector): the first element in document order that matches
Select(d, sel) ==
    First({i \in 1..Len(d) : Matches(d[i], sel)})

\* -1 stands for an exception leaving the locator.
FindTextboxUncaught(d) ==
    LET choice == ScriptChoice(d)
    IN IF choice # 0 /\ Select(d, SelectorOf(d[choice])) # 0
       THEN Select(d, SelectorOf(d[choice]))
       ELSE IF \E i \in 1..Len(d) : d[i].tag = "textarea"
       THEN First({i \in 1..Len(d) : d[i].tag = "textarea"})
       ELSE -1

\* Lines 1368-1380: select by the script's selector; when the script gave
\* none or the select raised, select('textarea'); None (0) when that fails.
FindTextbox(d) ==
    LET choice == ScriptChoice(d)
    IN IF choice # 0 /\ Select(d, SelectorOf(d[choice])) # 0
       THEN Select(d, SelectorOf(d[choice]))
       ELSE First({i \in 1..Len(d) : d[i].tag = "textarea"})

\* find_textbox called on the page.
LocateTextbox ==
    /\ _initialized
    /\ pc = "idle"
    /\ located' = [located EXCEPT !.called = TRUE,
                                  !.handle = FindTextbox(dom)]
    /\ UNCHANGED <<obj, sessionVars, keep_alive, pc, call, result, calls,
                   storage, theme, pollVars, probe_latency, dom, login_page, cf_check, menu, toggle_clicks>>

\* -------------------------------------------------------- find_send_button
\* document.querySelectorAll('button, div[role="button"]')
IsButton(el) ==
    el.tag = "button" \/ (el.tag = "div" /\ el.role)

\* lines 1411-1429: with a textarea on the page, the button first after the
\* ascending (stable) sort by distance; 0 without textarea or without buttons
ClosestButton(d) ==
    LET IsClosest(i) ==
            /\ IsButton(d[i])
            /\ \A j \in 1..Len(d) :
                   IsButton(d[j]) =>
                       \/ d[i].dist < d[j].dist
                       \/ (d[i].dist = d[j].dist /\ i <= j)
    IN IF (\E t \in 1..Len(d) : d[t].tag = "textarea")
          /\ (\E i \in 1..Len(d) : IsClosest(i))
       THEN CHOOSE i \in 1..Len(d) : IsClosest(i)
       ELSE 0

\* lines 1437-1440: the last of the buttons that hold an icon, 0 when none
LastIconButton(d) ==
    LET icons == {i \in 1..Len(d) : IsButton(d[i]) /\ d[i].icon}
    IN IF icons = {} THEN 0
       ELSE CHOOSE i \in icons : \A j \in icons : j <= i

\* lines 1385-1447: the element the page-side script builds its selector
\* from, 0 when the script returns null
ButtonScriptChoice(d) ==
    LET sendButton ==
            First({i \in 1..Len(d) : IsButton(d[i]) /\ d[i].send_text})
        attrButton ==
            First({i \in 1..Len(d) : IsButton(d[i]) /\ d[i].send_attr})
    IN IF sendButton # 0 THEN sendButton
       ELSE IF attrButton # 0 THEN attrButton
       ELSE IF ClosestButton(d) # 0 THEN ClosestButton(d)
       ELSE LastIconButton(d)

\* Lines 1450-1462: select by the script's selector; when the script gave
\* none or the select raised, select('div[role="button"]'); None (0) when
\* that fails.
FindSendButton(d) ==
    LET choice == ButtonScriptChoice(d)
    IN IF choice # 0 /\ Select(d, SelectorOf(d[choice])) # 0
       THEN Select(d, SelectorOf(d[choice]))
       ELSE First({i \in 1..Len(d) : d[i].tag = "div" /\ d[i].role})

\* find_send_button called on the page.
LocateSendButton ==
    /\ _initialized
    /\ pc = "idle"
    /\ located' = [located EXCEPT !.button_called = TRUE,
                                  !.button_handle = FindSendButton(dom)]
    /\ UNCHANGED <<obj, sessionVars, keep_alive, pc, call, result, calls,
                   storage, theme, pollVars, probe_latency, dom, login_page, cf_check, menu, toggle_clicks>>

\* ---------------------------------------------------------- specifications
\* A session from before its construction, on a page whose probes are slow.
Init ==
    /\ obj = "none"
    /\ _token = None
    /\ _email = None
    /\ _password = None
    /\ _chat_id = None
    /\ chat_id = None
    /\ _deepthink_enabled = FALSE
    /\ _search_enabled = FALSE
    /\ _initialized = FALSE
    /\ _is_active = None
    /\ keep_alive = "none"
    /\ pc = "idle"
    /\ call = NoCall
    /\ result = Outcome("none", "ok")
    /\ calls = 0
    /\ storage = None
    /\ theme = None
    /\ now = 0
    /\ end_time = 0
    /\ probe_latency = SlowProbe
    /\ generating_indicator = FALSE
    /\ response_text = None
    /\ dom = <<>>
    /\ located = NotLocated
    /\ login_page = None
    /\ cf_check = "ok"
    /\ menu = None
    /\ toggle_clicks = NoClicks

ResponseSteps ==
    \/ \E i \in Indicators : PollStart(i)
    \/ \E i \in Indicators, r \in BOOLEAN, x \in Extractions :
           PollComplete(i, r, x)
    \/ \E dt \in DeepthinkProbes, sr \in SearchProbes : Finish(dt, sr)

Exchanges(messages) ==
    \/ \E m \in messages, slow \in BOOLEAN, dt \in BOOLEAN, sr \in BOOLEAN,
          t \in Timeouts, tb \in BOOLEAN, n \in SendOptions, b \in BOOLEAN :
           SendMessage(m, slow, dt, sr, t, tb, n, b)
    \/ \E t \in Timeouts, tb \in BOOLEAN : RegenerateResponse(t, tb)

Next ==
    \/ \E t \in TokenArgs, e \in EmailArgs, p \in PasswordArgs,
          c \in {None, Some(IdX)} : Construct(t, e, p, c)
    \/ Initialize
    \/ \E tb \in BOOLEAN : Login(tb)
    \/ \E e \in ClassicEnv : LoginClassic(e)
    \/ KeepAlive(FALSE)
    \/ Teardown
    \/ RetrieveToken
    \/ Logout
    \/ \E t \in TokenArgs, e \in EmailArgs, p \in PasswordArgs :
           SwitchAccount(t, e, p)
    \/ \E id \in ChatIdArgs, tb \in BOOLEAN :
           \E landing \in Landings(id) : SwitchChat(id, landing, tb)
    \/ \E th \in Themes : SwitchTheme(th)
    \/ \E b \in BOOLEAN : ResetChat(b)
    \/ \E page \in {"probe_error", "no_item", "ok"} : DeleteChats(page)
    \/ Exchanges(Messages)
    \/ ResponseSteps

Spec == Init /\ [][Next]_vars

\* A session as initialize leaves it after a token login, on pages whose
\* probes take ProbeLatency ticks; the caller only exchanges messages.
ActiveSession ==
    /\ obj = "live"
    /\ _token = Some(TokenA)
    /\ _email = None
    /\ _password = None
    /\ _chat_id = Some(IdX)
    /\ chat_id = None
    /\ _deepthink_enabled = FALSE
    /\ _search_enabled = FALSE
    /\ _initialized = TRUE
    /\ _is_active = Some(TRUE)
    /\ keep_alive = "sleeping"
    /\ pc = "idle"
    /\ call = NoCall
    /\ result = [Outcome("initialize", "ok") EXCEPT
                    !.login = [attempts |-> <<Attempt("token", TRUE, FALSE)>>,
                               textbox_seen |-> TRUE, rechecked |-> FALSE],
                    !.page = <<"get", "verify_cf">>,
                    !.url = ChatUrl(IdX),
                    !.used = <<TokenA>>]
    /\ calls = 0
    /\ storage = Some(StoredToken(TokenA))
    /\ theme = None
    /\ now = 0
    /\ end_time = 0
    /\ generating_indicator = FALSE
    /\ response_text = None

ReplyInit ==
    /\ ActiveSession
    /\ probe_latency = ProbeLatency
    /\ dom = <<>>
    /\ located = NotLocated
    /\ login_page = None
    /\ cf_check = "ok"
    /\ menu = None
    /\ toggle_clicks = NoClicks

ReplyNext ==
    \/ Exchanges(ReplyMessages)
    \/ ResponseSteps

ReplySpec == ReplyInit /\ [][ReplyNext]_vars

\* An active session on a page of at most MaxDom elements; the locators run.
LocatorInit ==
    /\ ActiveSession
    /\ probe_latency = ProbeLatency
    /\ dom \in Doms
    /\ located = NotLocated
    /\ login_page = None
    /\ cf_check = "ok"
    /\ menu = None
    /\ toggle_clicks = NoClicks

LocatorNext ==
    \/ LocateTextbox
    \/ LocateSendButton

LocatorSpec == LocatorInit /\ [][LocatorNext]_vars

\* A session as __init__ leaves it, on a page with or without a challenge;
\* the caller initializes it and manages it, and exchanges no message.
LifecycleInit ==
    /\ obj = "live"
    /\ _token \in {None, Some(TokenA)}
    /\ _email \in {None, Some(EmailA)}
    /\ _password = IF _email = None THEN None ELSE Some(PasswordA)
    /\ HasCredentials(_token, _email, _password)
    /\ _chat_id \in {None, Some(IdX)}
    /\ chat_id = None
    /\ _deepthink_enabled = FALSE
    /\ _search_enabled = FALSE
    /\ _initialized = FALSE
    /\ _is_active = None
    /\ keep_alive = "none"
    /\ pc = "idle"
    /\ call = NoCall
    /\ result = [Outcome("__init__", "ok") EXCEPT
                    !.args = <<_token, _email, _password>>]
    /\ calls = 0
    /\ storage = None
    /\ theme = None
    /\ now = 0
    /\ end_time = 0
    /\ probe_latency = SlowProbe
    /\ generating_indicator = FALSE
    /\ response_text = None
    /\ dom = <<>>
    /\ located = NotLocated
    /\ login_page = None
    /\ cf_check \in CfAnswers
    /\ menu = None
    /\ toggle_clicks = NoClicks

LifecycleNext ==
    \/ Initialize
    \/ \E tb \in BOOLEAN : Login(tb)
    \/ \E e \in ClassicEnv : LoginClassic(e)
    \/ \E raises \in BOOLEAN : KeepAlive(raises)
    \/ Teardown
    \/ RetrieveToken
    \/ Logout
    \/ \E t \in TokenArgs, e \in EmailArgs, p \in PasswordArgs :
           SwitchAccount(t, e, p)
    \/ \E id \in ChatIdArgs, tb \in BOOLEAN :
           \E landing \in Landings(id) : SwitchChat(id, landing, tb)
    \/ \E th \in Themes : SwitchTheme(th)
    \/ \E b \in BOOLEAN : ResetChat(b)
    \/ \E page \in {"probe_error", "no_item", "ok"} : DeleteChats(page)

\* The event loop runs the keep-alive task when its sleep is over.
LifecycleSpec ==
    /\ LifecycleInit
    /\ [][LifecycleNext]_vars
    /\ WF_vars(KeepAlive(FALSE))

\* initialize suspended where classic login begins, directly or after the
\* token login failed, on each page classic login can be shown.
ClassicInit ==
    /\ obj = "live"
    /\ _token \in {None, Some(TokenA)}
    /\ _email = Some(EmailA)
    /\ _password = Some(PasswordA)
    /\ _chat_id = None
    /\ chat_id = None
    /\ _deepthink_enabled = FALSE
    /\ _search_enabled = FALSE
    /\ _initialized = TRUE
    /\ _is_active = Some(TRUE)
    /\ keep_alive = "sleeping"
    /\ pc = "login_classic"
    /\ call = [NoCall EXCEPT
                  !.op = "initialize",
                  !.page = <<"get", "verify_cf">>,
                  !.url = RootUrl,
                  !.token_failed = Truthy(_token),
                  !.used = IF Truthy(_token) THEN <<TokenA>> ELSE <<>>,
                  !.login.attempts =
                      IF Truthy(_token) THEN <<Attempt("token", FALSE, FALSE)>>
                      ELSE <<>>]
    /\ result = Outcome("initialize", "pending")
    /\ calls = 1
    /\ storage = IF Truthy(_token) THEN Some(StoredToken(TokenA)) ELSE None
    /\ theme = None
    /\ now = 0
    /\ end_time = 0
    /\ probe_latency = SlowProbe
    /\ generating_indicator = FALSE
    /\ response_text = None
    /\ dom = <<>>
    /\ located = NotLocated
    /\ login_page \in {Some(e) : e \in ClassicEnv}
    /\ cf_check = "ok"
    /\ menu = None
    /\ toggle_clicks = NoClicks

ClassicNext ==
    LoginClassic(login_page[1])

ClassicSpec == ClassicInit /\ [][ClassicNext]_vars

\* One exchange of an active session, on a page whose probes all return or
\* raise: a suspended exchange is resumed, and each loop pass ends by
\* sleeping its interval.
ExchangeNext ==
    \/ calls = 0 /\ Exchanges(ReplyMessages)
    \/ ResponseSteps

ExchangeSpec ==
    ReplyInit /\ [][ExchangeNext]_vars /\ WF_vars(ResponseSteps)

\* One exchange of an active session during which the object may be torn
\* down: __del__ can be called at any await of the exchange, and the
\* keep-alive task wakes on its own schedule.
TeardownNext ==
    \/ calls = 0 /\ Exchanges(ReplyMessages)
    \/ ResponseSteps
    \/ Teardown
    \/ KeepAlive(FALSE)

TeardownSpec ==
    ReplyInit /\ [][TeardownNext]_vars /\ WF_vars(ResponseSteps)

\* A session as __init__ leaves it, or an initialized session whose mode
\* flags are as earlier send_message calls left them; the caller runs every
\* operation, the exchanges with a zero timeout.
ModeInit ==
    /\ obj = "live"
    /\ _token = Some(TokenA)
    /\ _email = Some(EmailA)
    /\ _password = Some(PasswordA)
    /\ _chat_id = None
    /\ chat_id = None
    /\ _initialized \in BOOLEAN
    /\ _deepthink_enabled \in (IF _initialized THEN BOOLEAN ELSE {FALSE})
    /\ _search_enabled \in (IF _initialized THEN BOOLEAN ELSE {FALSE})
    /\ _is_active = IF _initialized THEN Some(TRUE) ELSE None
    /\ keep_alive = IF _initialized THEN "sleeping" ELSE "none"
    /\ pc = "idle"
    /\ call = NoCall
    /\ result = IF _initialized
                THEN [Outcome("initialize", "ok") EXCEPT
                         !.login = [attempts |-> <<Attempt("token", TRUE, FALSE)>>,
                                    textbox_seen |-> TRUE, rechecked |-> FALSE],
                         !.page = <<"get", "verify_cf">>,
                         !.url = RootUrl,
                         !.used = <<TokenA>>]
                ELSE [Outcome("__init__", "ok") EXCEPT
                         !.args = <<_token, _email, _password>>]
    /\ calls = 0
    /\ storage = IF _initialized THEN Some(StoredToken(TokenA)) ELSE None
    /\ theme = None
    /\ now = 0
    /\ end_time = 0
    /\ probe_latency = SlowProbe
    /\ generating_indicator = FALSE
    /\ response_text = None
    /\ dom = <<>>
    /\ located = NotLocated
    /\ login_page = None
    /\ cf_check = "ok"
    /\ menu = None
    /\ toggle_clicks = [deepthink |-> _deepthink_enabled,
                        search |-> _search_enabled]

ModeNext ==
    \/ LifecycleNext
    \/ \E dt \in BOOLEAN, sr \in BOOLEAN, n \in SendOptions, b \in BOOLEAN :
           SendMessage(<<"h","i">>, FALSE, dt, sr, 0, TRUE, n, b)
    \/ \E tb \in BOOLEAN : RegenerateResponse(0, tb)
    \/ ResponseSteps

ModeSpec == ModeInit /\ [][ModeNext]_vars

\* An active session whose profile dropdown holds one of the menus; the
\* caller deletes the chats, or searches the dropdown itself.
MenuInit ==
    /\ ActiveSession
    /\ probe_latency = ProbeLatency
    /\ dom = <<>>
    /\ located = NotLocated
    /\ login_page = None
    /\ cf_check = "ok"
    /\ menu \in {Some(m) : m \in Menus}
    /\ toggle_clicks = NoClicks

MenuNext ==
    \/ \E probe \in BOOLEAN :
           DeleteChats(IF probe THEN "probe_error" ELSE MenuAnswer(menu[1]))
    \/ LocateMenuItem

MenuSpec == MenuInit /\ [][MenuNext]_vars

\* A session as __init__ leaves it, holding a token; the caller initializes
\* it, reads the stored token, logs out and switches the account.
TokenInit ==
    /\ obj = "live"
    /\ _token \in {Some(TokenA), Some(TokenEscaped)}
    /\ _email \in {None, Some(EmailA)}
    /\ _password = IF _email = None THEN None ELSE Some(PasswordA)
    /\ _chat_id = None
    /\ chat_id = None
    /\ _deepthink_enabled = FALSE
    /\ _search_enabled = FALSE
    /\ _initialized = FALSE
    /\ _is_active = None
    /\ keep_alive = "none"
    /\ pc = "idle"
    /\ call = NoCall
    /\ result = [Outcome("__init__", "ok") EXCEPT
                    !.args = <<_token, _email, _password>>]
    /\ calls = 0
    /\ storage = None
    /\ theme = None
    /\ now = 0
    /\ end_time = 0
    /\ probe_latency = SlowProbe
    /\ generating_indicator = FALSE
    /\ response_text = None
    /\ dom = <<>>
    /\ located = NotLocated
    /\ login_page = None
    /\ cf_check = "ok"
    /\ menu = None
    /\ toggle_clicks = NoClicks

TokenNext ==
    \/ Initialize
    \/ \E tb \in BOOLEAN : Login(tb)
    \/ \E e \in ClassicEnv : LoginClassic(e)
    \/ RetrieveToken
    \/ Logout
    \/ \E t \in {None, Some(TokenA), Some(TokenEscaped)}, e \in EmailArgs,
          p \in PasswordArgs : SwitchAccount(t, e, p)

TokenSpec == TokenInit /\ [][TokenNext]_vars

\* An active session constructed on chat IdX; the caller resets the chat,
\* switches to other chats and sends messages.
ChatNext ==
    \/ \E b \in BOOLEAN : ResetChat(b)
    \/ \E id \in ChatIdArgs \ {IdX}, tb \in BOOLEAN :
           \E landing \in Landings(id) : SwitchChat(id, landing, tb)
    \/ \E sr \in BOOLEAN, t \in Timeouts :
           SendMessage(<<"h","i">>, FALSE, FALSE, sr, t, TRUE, 0, TRUE)
    \/ ResponseSteps

ChatSpec == ReplyInit /\ [][ChatNext]_vars

\* ------------------------------------------------------------ properties
\* The operations that begin with the initialization check.
CallerOps ==
    {"send_message", "regenerate_response", "retrieve_token", "reset_chat",
     "logout", "delete_chats", "switch_account", "switch_chat", "switch_theme"}

ExchangeOps ==
    {"send_message", "regenerate_response"}

\* The lifecycle state `active`: initialize has marked the session and no
\* teardown has cleared the mark.
LifecycleActive ==
    _initialized /\ _is_active = Some(TRUE)

\* C1, as stated: an operation other than initialize that is invoked while
\* the session is not active (teardown included) fails with
\* MissingInitialization.
C1_NotActiveRejected ==
    [][(calls' = calls + 1 /\ result'.op \in CallerOps /\ ~LifecycleActive)
           => result'.kind = "MissingInitialization"]_vars

\* C1, amended: an operation other than initialize that is invoked on a
\* session on which initialize has never been called fails with
\* MissingInitialization and is not begun.
C1_UninitializedRejected ==
    (result.op \in CallerOps /\ ~_initialized)
        => (result.kind = "MissingInitialization" /\ pc = "idle"
            /\ call = NoCall /\ storage = None /\ theme = None)

\* switch_chat rejected on a session that was constructed, never initialized.
C1_Witness ==
    /\ result.op = "switch_chat"
    /\ result.kind = "MissingInitialization"
    /\ ~_initialized
    /\ calls = 1

C3_Fallback ==
    /\ (pc = "login_classic" /\ call.login.attempts # <<>>)
           => (call.token_failed
               /\ call.login.attempts = <<Attempt("token", FALSE, FALSE)>>
               /\ result.kind = "pending")
    /\ (pc = "idle" /\ result.op = "initialize"
        /\ result.login.attempts # <<>>
        /\ result.login.attempts[1] = Attempt("token", FALSE, FALSE)
        /\ _email # None /\ _email # Some(<<>>)
        /\ _password # None /\ _password # Some(<<>>))
           => /\ Len(result.login.attempts) = 2
              /\ result.login.attempts[2].method = "classic"
              /\ result.login.attempts[2].token_failed
              /\ result.login.attempts[2].ok
                     => (result.kind = "ok" /\ result.msg = ""
                         /\ _initialized /\ _is_active # None)

\* initialize returned after a failed token login and a classic login that
\* succeeded; the session is active.
C3_Witness ==
    /\ result.op = "initialize"
    /\ result.kind = "ok"
    /\ result.login.attempts
           = <<Attempt("token", FALSE, FALSE), Attempt("classic", TRUE, TRUE)>>
    /\ LifecycleActive

\* C4: when the token login fails and the session does not hold both an
\* email and a password, login fails with InvalidCredentials and classic
\* login is never attempted.
C4_NoFallback ==
    /\ (pc = "login_classic" /\ call.token_failed)
           => (_email # None /\ _email # Some(<<>>)
               /\ _password # None /\ _password # Some(<<>>))
    /\ (pc = "idle" /\ result.op \in {"initialize", "switch_account"}
        /\ result.login.attempts # <<>>
        /\ result.login.attempts[1] = Attempt("token", FALSE, FALSE)
        /\ ~(_email # None /\ _email # Some(<<>>)
             /\ _password # None /\ _password # Some(<<>>)))
           => /\ result.kind = "InvalidCredentials"
              /\ result.login.attempts = <<Attempt("token", FALSE, FALSE)>>

\* initialize failed on a session holding a token and an email, no password.
C4_Witness ==
    /\ result.op = "initialize"
    /\ result.kind = "InvalidCredentials"
    /\ result.login.attempts = <<Attempt("token", FALSE, FALSE)>>
    /\ _email = Some(EmailA)
    /\ _password = None

\* C5, as stated: switch_chat(id) raises InvalidChatID when the URL after
\* the navigation does not contain id, sets the session's chat id to id
\* when it does and the textbox appeared, and raises CouldNotFindElement
\* when the textbox did not appear; on either error the chat id is kept.
C5_AsStated ==
    (result.op = "switch_chat" /\ result.kind # "MissingInitialization") =>
        LET id == result.args[1]
            landing == result.args[2]
            textbox == result.args[3]
            previous == result.args[4]
        IN /\ ~Includes(landing, id)
                  => (result.kind = "InvalidChatID" /\ _chat_id = previous)
           /\ (Includes(landing, id) /\ textbox)
                  => (result.kind = "ok" /\ _chat_id = Some(id))
           /\ ~textbox
                  => (result.kind = "CouldNotFindElement"
                      /\ _chat_id = previous)

\* C5, amended: switch_chat(id) raises CouldNotFindElement when the textbox
\* did not appear; when it appeared, it raises InvalidChatID if the URL does
\* not contain id and otherwise sets the chat id to id; on either error the
\* chat id is kept.
C5_TextboxFirst ==
    (result.op = "switch_chat" /\ result.kind # "MissingInitialization") =>
        LET id == result.args[1]
            landing == result.args[2]
            textbox == result.args[3]
            previous == result.args[4]
        IN /\ (textbox /\ ~Includes(landing, id))
                  => (result.kind = "InvalidChatID" /\ _chat_id = previous)
           /\ (textbox /\ Includes(landing, id))
                  => (result.kind = "ok" /\ _chat_id = Some(id))
           /\ ~textbox
                  => (result.kind = "CouldNotFindElement"
                      /\ _chat_id = previous)

\* switch_chat to x1 landed on the chat root: InvalidChatID, the session
\* still without a chat id.
C5_Witness ==
    /\ result.op = "switch_chat"
    /\ result.kind = "InvalidChatID"
    /\ result.args = <<IdX, RootUrl, TRUE, None>>
    /\ _chat_id = None

\* C6: the deadline of a send_message exchange is the caller's timeout plus
\* 20 seconds when deepthink was requested plus 60 seconds when search was
\* requested, and a text extracted by a poll that began before that deadline
\* ends the polling and is returned as the Reply (the busy phrase apart,
\* which raises ServerDown).
C6_Deadline ==
    /\ (pc \in {"poll_start", "poll_complete"} /\ call.op = "send_message")
           => end_time = 2 * (call.timeout
                              + (IF call.sent.deepthink THEN 20 ELSE 0)
                              + (IF call.sent.search THEN 60 ELSE 0))
    /\ ~(pc = "poll_complete" /\ Truthy(response_text))
    /\ (pc = "finish" /\ call.sent.last_chance) => Truthy(response_text)
    /\ (pc = "idle" /\ result.op \in ExchangeOps /\ result.sent.text # None)
           => \/ result.kind = "ServerDown"
              \/ /\ result.kind = "ok"
                 /\ result.reply # None
                 /\ result.reply[1].text = result.sent.text[1]

\* A send_message with both modes requested returned a Reply whose text was
\* extracted by the last poll that could begin before the deadline.
C6_Witness ==
    /\ result.op = "send_message"
    /\ result.kind = "ok"
    /\ result.reply # None
    /\ result.reply[1].text = Hello
    /\ result.sent.deepthink
    /\ result.sent.search
    /\ result.sent.last_chance

\* C7: an exchange raises ServerDown, and returns no Reply, exactly when the
\* extracted text equals the busy phrase compared without regard to case; a
\* text that only contains the phrase is returned as a Reply.
C7_Busy ==
    (pc = "idle" /\ result.op \in ExchangeOps
     /\ result.kind \in {"ok", "ServerDown"}) =>
        LET x == result.sent.text
        IN /\ result.kind = "ServerDown"
                  <=> x \in {Some(BusyMessage), Some(BusyCanonical)}
           /\ result.kind = "ServerDown" => result.reply = None
           /\ x \in {Some(BusyQuoted), Some(Hello)}
                  => (result.reply # None /\ result.reply[1].text = x[1])

\* ServerDown raised for the phrase in the site's capitalisation.
C7_Witness ==
    /\ result.op = "send_message"
    /\ result.kind = "ServerDown"
    /\ result.sent.text = Some(BusyCanonical)
    /\ result.reply = None

\* C8: an exchange in which no text was extracted before the deadline
\* returns None and raises nothing.
C8_NoText ==
    /\ (pc = "idle" /\ result.op \in ExchangeOps
        /\ result.sent.send_clicked /\ result.sent.text = None)
           => (result.kind = "ok" /\ result.reply = None)
    /\ (pc = "idle" /\ result.op = "regenerate_response"
        /\ result.kind \notin {"MissingInitialization", "ProbeError"}
        /\ result.sent.text = None)
           => (result.kind = "ok" /\ result.reply = None)

\* A message was sent, the deadline passed with nothing extracted, and
\* send_message returned None.
C8_Witness ==
    /\ pc = "idle"
    /\ result.op = "send_message"
    /\ result.sent.send_clicked
    /\ result.sent.text = None
    /\ result.kind = "ok"
    /\ result.reply = None
    /\ calls = 1

\* The pages of C9: no textarea, and exactly one editable container, which
\* has neither id nor class; the index of that container.
OnlyAnonymousContainer(d) ==
    /\ \A i \in 1..Len(d) : d[i].tag # "textarea"
    /\ Cardinality({i \in 1..Len(d) : d[i].editable}) = 1
    /\ \A i \in 1..Len(d) : d[i].editable => (d[i].id = "" /\ d[i].cls = "")

TheContainer(d) ==
    CHOOSE i \in 1..Len(d) : d[i].editable

\* C9, as stated: on a page whose only free-text input surface is a single
\* anonymous editable container, with no textarea, find_textbox returns a
\* handle to that very container.
C9_ContainerReturned ==
    (located.called /\ OnlyAnonymousContainer(dom))
        => located.handle = TheContainer(dom)

\* C10, as stated: a Reply of send_message carries an attempt at a side
\* channel exactly when its mode was requested in that call, and a mode
\* that was not requested leaves its channel absent, whatever earlier
\* exchanges requested and whether or not the toggles were located.
C10_ByRequest ==
    (pc = "idle" /\ result.op = "send_message" /\ result.reply # None) =>
        /\ result.sent.dt_attempt <=> result.sent.deepthink
        /\ result.sent.search_attempt <=> result.sent.search
        /\ ~result.sent.deepthink
               => (result.reply[1].deepthink_content = None
                   /\ result.reply[1].deepthink_duration = None)
        /\ ~result.sent.search => result.reply[1].search_results = None

\* C10, amended: a side channel is attempted exactly when the session's flag
\* for its mode is set when the Reply is assembled, and a channel whose flag
\* is off is absent; the flags equal the modes requested in the call when
\* at least two option toggles were located, and keep the values earlier
\* exchanges left otherwise.
C10_BySessionFlag ==
    (pc = "idle" /\ result.op \in ExchangeOps /\ result.reply # None) =>
        /\ result.sent.dt_attempt <=> _deepthink_enabled
        /\ result.sent.search_attempt <=> _search_enabled
        /\ ~_deepthink_enabled
               => (result.reply[1].deepthink_content = None
                   /\ result.reply[1].deepthink_duration = None)
        /\ ~_search_enabled => result.reply[1].search_results = None
        /\ result.sent.located
               => (_deepthink_enabled = result.sent.deepthink
                   /\ _search_enabled = result.sent.search)

\* The second exchange asked for no reasoning, its toggles were not located,
\* and the Reply carries the reasoning the first exchange had switched on.
C10_Witness ==
    /\ pc = "idle"
    /\ result.op = "send_message"
    /\ ~result.sent.deepthink
    /\ ~result.sent.located
    /\ result.sent.dt_attempt
    /\ result.reply # None
    /\ result.reply[1].deepthink_content = Some(Thought)
    /\ calls = 2

\* C11: a failure while extracting the reasoning channel or the search
\* channel leaves that channel absent, and the Reply is still returned with
\* the text already extracted: the exchange ends neither in an error nor in
\* an absent result.
C11_SideChannelNonFatal ==
    (pc = "idle" /\ result.op \in ExchangeOps
     /\ result.sent.text \in {Some(Hello), Some(BusyQuoted)}) =>
        /\ result.kind = "ok"
        /\ result.reply # None
        /\ result.reply[1].text = result.sent.text[1]
        /\ result.sent.dt_probe \in {"raise", "null"}
               => (result.reply[1].deepthink_content = None
                   /\ result.reply[1].deepthink_duration = None)
        /\ result.sent.search_probe \in {"raise", "null", "empty"}
               => result.reply[1].search_results = None

\* Both side-channel probes raised and the Reply carries the text alone.
C11_Witness ==
    /\ pc = "idle"
    /\ result.op = "send_message"
    /\ result.kind = "ok"
    /\ result.sent.dt_probe = "raise"
    /\ result.sent.search_probe = "raise"
    /\ result.reply # None
    /\ result.reply[1].text = Hello
    /\ result.reply[1].deepthink_content = None
    /\ result.reply[1].search_results = None

\* C12: send_message raises CouldNotFindElement when the textbox is not
\* located, before anything is typed, and when the send control is not
\* located; in both cases the send control is not clicked and no polling
\* starts.
C12_MissingControl ==
    /\ (pc # "idle" /\ call.op = "send_message")
           => (call.sent.textbox /\ call.sent.send_clicked)
    /\ (pc = "idle" /\ result.op = "send_message"
        /\ result.kind # "MissingInitialization") =>
           /\ ~result.sent.textbox
                  => (result.kind = "CouldNotFindElement"
                      /\ result.sent.typed = <<>>)
           /\ (result.sent.textbox /\ ~result.sent.send_clicked)
                  => result.kind = "CouldNotFindElement"
           /\ result.kind = "CouldNotFindElement"
                  => /\ ~result.sent.send_clicked
                     /\ result.sent.text = None
                     /\ result.reply = None
                     /\ now = 0 /\ end_time = 0

\* The message was typed, the send control was not located, and
\* send_message raised CouldNotFindElement.
C12_Witness ==
    /\ pc = "idle"
    /\ result.op = "send_message"
    /\ result.kind = "CouldNotFindElement"
    /\ result.sent.textbox
    /\ result.sent.typed = <<<<"h","i">>>>
    /\ ~result.sent.send_clicked

\* The six kinds of error of the design; ServerDown is the code's name for
\* the server-busy kind.
SurfacedKinds ==
    {"MissingCredentials", "InvalidCredentials", "MissingInitialization",
     "CouldNotFindElement", "InvalidChatID", "ServerDown"}

\* C13, as stated: whatever the page does, an operation returns or raises
\* one of the six kinds; no other error reaches the caller.
C13_OnlyTypedErrors ==
    result.kind \in {"pending", "ok"} \cup SurfacedKinds

\* C14, as stated: an operation invoked before initialize has completed,
\* here after initialize aborted with a login error (or before it was
\* called), fails with MissingInitialization.
C14_RejectedUntilCompleted ==
    [][(calls' = calls + 1 /\ result'.op \in CallerOps
        /\ (~_initialized \/ AfterAbort))
           => result'.kind = "MissingInitialization"]_vars

\* C14, amended: an operation invoked before initialize was called fails
\* with MissingInitialization; initialize marks the session before it logs
\* in and the mark stays when the login fails, so an operation invoked after
\* initialize aborted with a login error is not rejected.
C14_MarkedBeforeLogin ==
    [][(calls' = calls + 1 /\ result'.op \in CallerOps)
           => /\ ~_initialized => result'.kind = "MissingInitialization"
              /\ AfterAbort => (_initialized
                                /\ result'.kind # "MissingInitialization")]_vars

\* logout ran to its end on a session whose initialize had just failed.
C14_Witness ==
    /\ result.op = "logout"
    /\ result.kind = "ok"
    /\ result.after_abort
    /\ storage = None

\* C15: switch_account raises MissingCredentials exactly when it is given
\* no token and not both an email and a password, the condition of the
\* construction; in that case it logs out of nothing, reloads nothing and
\* leaves the stored token, email and password as they were.
C15_SwitchValidation ==
    [][(calls' = calls + 1 /\ result'.op = "switch_account"
        /\ result'.kind # "MissingInitialization") =>
           LET t == result'.args[1]
               e == result'.args[2]
               p == result'.args[3]
               no_token == t = None \/ t = Some(<<>>)
               email == e # None /\ e # Some(<<>>)
               password == p # None /\ p # Some(<<>>)
           IN /\ result'.kind = "MissingCredentials"
                     <=> (no_token /\ ~(email /\ password))
              /\ result'.kind = "MissingCredentials"
                     => /\ result'.page = <<>>
                        /\ pc' = "idle"
                        /\ UNCHANGED <<_token, _email, _password, storage>>
              /\ result'.kind # "MissingCredentials"
                     => /\ result'.kind = "pending"
                        /\ <<_token', _email', _password'>> = <<t, e, p>>]_vars

\* switch_account with an email alone was refused on a session that still
\* holds its token, in storage too.
C15_Witness ==
    /\ result.op = "switch_account"
    /\ result.kind = "MissingCredentials"
    /\ result.args = <<None, Some(EmailA), None>>
    /\ _token = Some(TokenA)
    /\ storage = Some(StoredToken(TokenA))

\* C16: logout removes the token from client-side storage and then reloads
\* the page; the lifecycle state, the credentials, the chat id and both mode
\* flags stay as they were.
C16_LogoutFrame ==
    [][(calls' = calls + 1 /\ result'.op = "logout"
        /\ result'.kind # "MissingInitialization")
           => /\ result'.kind = "ok"
              /\ storage' = None
              /\ result'.page = <<"removeItem", "reload">>
              /\ UNCHANGED <<_token, _email, _password, _chat_id, chat_id,
                             _deepthink_enabled, _search_enabled,
                             _initialized, _is_active, keep_alive>>]_vars

\* logout returned on a session logged in by token: the storage is empty,
\* the session still holds the token.
C16_Witness ==
    /\ result.op = "logout"
    /\ result.kind = "ok"
    /\ ~result.after_abort
    /\ result.page = <<"removeItem", "reload">>
    /\ storage = None
    /\ _token = Some(TokenA)
    /\ LifecycleActive

\* C17: find_textbox and find_send_button return one handle of the page or
\* the empty result; on a page with no candidate for the role they return
\* the empty result and raise nothing.
C17_LocatorsTotal ==
    /\ located.called =>
           /\ located.handle \in 0..Len(dom)
           /\ (\A i \in 1..Len(dom) :
                   dom[i].tag # "textarea"
                   /\ ~(dom[i].tag = "div" /\ dom[i].editable))
                  => located.handle = 0
    /\ located.button_called =>
           /\ located.button_handle \in 0..Len(dom)
           /\ (\A i \in 1..Len(dom) :
                   dom[i].tag # "button"
                   /\ ~(dom[i].tag = "div" /\ dom[i].role))
                  => located.button_handle = 0

\* Both locators ran on a page of plain elements only and answered None.
C17_Witness ==
    /\ Len(dom) = 2
    /\ \A i \in 1..Len(dom) : dom[i] = Element("div", "", "", FALSE, FALSE, 0, 100)
    /\ located.called
    /\ located.handle = 0
    /\ located.button_called
    /\ located.button_handle = 0

\* The characters a sequence of send_keys calls delivers, in order.
RECURSIVE Delivered(_)
Delivered(batches) ==
    IF batches = <<>> THEN <<>>
    ELSE Head(batches) \o Delivered(Tail(batches))

\* C18: slow mode and one-shot injection deliver the same characters in the
\* same order, those of the message, and the whole message has been
\* delivered before the send control is clicked; slow mode delivers one
\* character per keystroke, one-shot injection delivers all at once.
C18_SameCharacters ==
    LET t == IF pc = "idle" THEN result.sent ELSE call.sent
        op == IF pc = "idle" THEN result.op ELSE call.op
    IN (op = "send_message" /\ t.textbox) =>
           /\ Delivered(t.typed) = t.message
           /\ t.slow_mode =>
                  (Len(t.typed) = Len(t.message)
                   /\ \A i \in 1..Len(t.typed) : t.typed[i] = <<t.message[i]>>)
           /\ ~t.slow_mode => t.typed = <<t.message>>

\* The send control was clicked after "hi" had been typed one character at
\* a time.
C18_Witness ==
    /\ pc = "poll_start"
    /\ call.op = "send_message"
    /\ call.sent.slow_mode
    /\ call.sent.message = <<"h", "i">>
    /\ call.sent.typed = <<<<"h">>, <<"i">>>>
    /\ call.sent.send_clicked

\* C19, as stated: a start phase that ends without having seen the
\* indicator is followed by a completion phase that still polls the page, so
\* that a reply already there is extracted.
C19_CompletionPhaseRuns ==
    (pc = "poll_complete" /\ ~generating_indicator /\ end_time > 0)
        => now < end_time

\* C20: in the completion phase a text is extracted only by a poll that
\* found the indicator absent, so no Reply is built from a text read while
\* the indicator was present; and the polling goes on until a text is
\* obtained or the deadline has passed.
C20_ExtractWhenIdle ==
    /\ [](/\ (pc = "finish" /\ Truthy(response_text))
                 => call.sent.read_under = "absent"
          /\ (pc = "idle" /\ result.op \in ExchangeOps
              /\ result.sent.text # None)
                 => result.sent.read_under = "absent")
    /\ [][(pc = "poll_complete" /\ pc' = "finish")
              => (Truthy(response_text') \/ now >= end_time)]_vars
    /\ [][(pc = "poll_complete" /\ pc' = "poll_complete")
              => (now < end_time /\ now' > now
                  /\ ~Truthy(response_text'))]_vars

\* A Reply whose text was extracted, the indicator absent, by the last poll
\* before the deadline, after the polls before it had obtained none.
C20_Witness ==
    /\ pc = "idle"
    /\ result.op = "send_message"
    /\ result.reply # None
    /\ result.reply[1].text = Hello
    /\ result.sent.read_under = "absent"
    /\ result.sent.last_chance

\* C21: a probe that raises in a poll of the start phase or of the
\* completion phase is not surfaced: the loop sleeps its interval and polls
\* again, and the exchange still ends by returning (a Reply when a later
\* poll extracts a text) or by the server-busy error.
C21_PollFailureSwallowed ==
    /\ [](/\ (pc # "idle" /\ call.op \in ExchangeOps /\ call.sent.poll_raised)
                 => (pc \in {"poll_start", "poll_complete", "finish"}
                     /\ result.kind = "pending")
          /\ (pc = "idle" /\ result.op \in ExchangeOps
              /\ result.sent.poll_raised)
                 => result.kind \in {"ok", "ServerDown"})
    /\ [][(pc = "poll_start" /\ ~call.sent.poll_raised
           /\ call'.sent.poll_raised)
              => (pc' = "poll_start"
                  /\ now' = now + probe_latency + StartPollSleep)]_vars
    /\ [][(pc = "poll_complete" /\ ~call.sent.poll_raised
           /\ call'.sent.poll_raised)
              => (pc' = "poll_complete"
                  /\ now' = now + probe_latency + CompletionPollSleep)]_vars

\* A Reply returned by an exchange in which a poll's probe had raised.
C21_Witness ==
    /\ pc = "idle"
    /\ result.op = "send_message"
    /\ result.kind = "ok"
    /\ result.sent.poll_raised
    /\ result.reply # None
    /\ result.reply[1].text = Hello

\* C22: the response protocol terminates.  Each phase stops polling at
\* the first test of the loop condition made once the deadline has passed,
\* every exchange that entered the protocol ends, and it ends by returning
\* a Reply, by returning nothing, or by the server-busy error; an exchange
\* that ran out of time without a text returns nothing and raises nothing.
C22_Terminates ==
    /\ (pc \in {"poll_start", "poll_complete", "finish"}) ~> (pc = "idle")
    /\ [][(pc = "poll_start" /\ now >= end_time)
              => (pc' = "poll_complete" /\ now' = now)]_vars
    /\ [][(pc = "poll_complete" /\ now >= end_time) => pc' = "finish"]_vars
    /\ [][(pc = "finish" /\ pc' = "idle")
              => (/\ result'.kind \in {"ok", "ServerDown"}
                  /\ result'.kind = "ServerDown" => result'.reply = None
                  /\ ~Truthy(response_text)
                         => (result'.kind = "ok" /\ result'.reply = None))]_vars

\* A regeneration whose polls went on, a probe raising, until the deadline
\* had passed, and which returned nothing.
C22_Witness ==
    /\ pc = "idle"
    /\ result.op = "regenerate_response"
    /\ result.kind = "ok"
    /\ result.reply = None
    /\ result.sent.text = None
    /\ result.sent.poll_raised

\* The classic login that ended was run on this page, with this flag.
ClassicRan ==
    /\ pc = "idle"
    /\ result.op = "initialize"
    /\ login_page # None

TokenFailedFlag ==
    result.login.attempts[Len(result.login.attempts)].token_failed

ClassicRun ==
    LoginClassicOutcome(login_page[1], TokenFailedFlag)

Submitted(e) ==
    e.form = "submitted" /\ e.probe = "ok"

\* The URL denotes a login or sign-in route.
OnLoginRoute(u) ==
    \/ Includes(u, <<"/","l","o","g","i","n">>)
    \/ Includes(u, <<"/","s","i","g","n","_","i","n">>)

\* C23, as stated: after the submission, a page still on the login route
\* that has a password field, no post-login marker and a failure text ends
\* the login with InvalidCredentials carrying the matched text.
C23_FailureTextDecides ==
    (/\ ClassicRan
     /\ Submitted(login_page[1])
     /\ OnLoginRoute(login_page[1].url)
     /\ login_page[1].pw_field
     /\ ~login_page[1].markers
     /\ login_page[1].error_text # "")
        => (/\ result.kind = "InvalidCredentials"
            /\ result.msg = "Login error: " \o login_page[1].error_text)

\* No success signal and no failure text, as the code reads them.
Ambiguous(e) ==
    /\ Submitted(e)
    /\ ~UrlIndicatesSuccess(e.url)
    /\ ~UiIndicatesSuccess(e)
    /\ e.error_text = ""

Count(seq, x) ==
    Cardinality({i \in 1..Len(seq) : seq[i] = x})

\* C24: on an ambiguous reading the login navigates to the chat root once
\* and rechecks for the textbox; it succeeds when the textbox is found and
\* raises InvalidCredentials when it is not or the navigation fails; and no
\* login that was submitted ends with the final-failure message without
\* the recheck having been made.
C24_LastResort ==
    /\ (ClassicRan /\ Ambiguous(login_page[1]))
           => (/\ result.login.rechecked
               /\ Count(ClassicRun.probes, "navigate") = 1
               /\ login_page[1].after = "textbox"
                      => (result.kind = "ok" /\ result.msg = "")
               /\ login_page[1].after # "textbox"
                      => (/\ result.kind = "InvalidCredentials"
                          /\ result.msg = FinalMessage(TokenFailedFlag)))
    /\ (ClassicRan /\ result.kind = "InvalidCredentials"
        /\ result.msg = FinalMessage(TokenFailedFlag))
           => result.login.rechecked

\* The ambiguous page, the textbox found after the forced navigation.
C24_Witness ==
    /\ ClassicRan
    /\ Ambiguous(login_page[1])
    /\ login_page[1].after = "textbox"
    /\ result.kind = "ok"
    /\ result.login.rechecked
    /\ result.login.textbox_seen

\* C25: a login whose email input, password input or submit control is not
\* found raises InvalidCredentials; when an input is missing the submit
\* script is never run, and in all three cases no classification probe and
\* no forced navigation is made.
C25_FormElementMissing ==
    (ClassicRan /\ login_page[1].form \in FormFailures)
        => (/\ result.kind = "InvalidCredentials"
            /\ ~result.login.rechecked
            /\ ~ClassicRun.submitted
            /\ \A x \in {"href", "url_check", "ui_check", "error_text",
                        "navigate", "find_textbox"} :
                   Count(ClassicRun.probes, x) = 0
            /\ login_page[1].form \in {"email_absent", "email_raise",
                                       "password_absent", "password_raise"}
                   => Count(ClassicRun.probes, "submit") = 0)

\* The password input was not found.
C25_Witness ==
    /\ ClassicRan
    /\ login_page[1].form = "password_absent"
    /\ result.kind = "InvalidCredentials"
    /\ result.msg = "Could not find password input field"

\* C26: on the same page, classic login run with the fallback flag and run
\* without it make the same probe calls in the same order and end the same
\* way; only the text of the final failure message differs.
C26_FlagOnlyInMessage ==
    ClassicRan =>
        LET with == LoginClassicOutcome(login_page[1], TRUE)
            without == LoginClassicOutcome(login_page[1], FALSE)
        IN /\ result.kind = with.kind
           /\ with.kind = without.kind
           /\ with.probes = without.probes
           /\ with.rechecked = without.rechecked
           /\ with.submitted = without.submitted
           /\ with.textbox_seen = without.textbox_seen
           /\ with.msg # without.msg
                  => (/\ with.msg = FinalMessage(TRUE)
                      /\ without.msg = FinalMessage(FALSE)
                      /\ with.kind = "InvalidCredentials")

\* A classic login run after the token failed, on a page where the recheck
\* finds no textbox: it ends as without the flag, with the other message.
C26_Witness ==
    /\ ClassicRan
    /\ TokenFailedFlag
    /\ result.login.rechecked
    /\ result.kind = "InvalidCredentials"
    /\ result.msg = "Both token and email/password are incorrect"
    /\ LoginClassicOutcome(login_page[1], FALSE).msg
           = "The email or password is incorrect"

\* C27: initialize navigates (to the chat root, or to the route of the
\* chat id the session was given), then runs the challenge verification
\* when it is asked for, whose failure aborts nothing, then marks the
\* session and starts the keep-alive task, and only then logs in, with the
\* token when one is configured and with the form otherwise.
C27_InitializeOrder ==
    /\ (call.op = "initialize" /\ pc \in {"login", "login_classic"})
           => (/\ call.url = NavigationTarget
               /\ call.page = Arrival
               /\ _initialized
               /\ _is_active # None
               /\ keep_alive # "none"
               /\ pc = "login" => Truthy(_token)
               /\ pc = "login_classic"
                      => (~Truthy(_token) \/ call.token_failed))
    /\ (result.op = "initialize" /\ result.kind # "pending")
           => (/\ result.kind \in {"ok", "InvalidCredentials"}
               /\ result.url = NavigationTarget
               /\ result.page = Arrival
               /\ _initialized
               /\ keep_alive # "none"
               /\ Len(result.login.attempts) >= 1
               /\ result.login.attempts[1].method =
                      IF Truthy(_token) THEN "token" ELSE "classic")

\* The verification raised, and initialize went on to a login that
\* succeeded, on the route of the chat id.
C27_Witness ==
    /\ pc = "idle"
    /\ result.op = "initialize"
    /\ result.kind = "ok"
    /\ cf_check = "raise"
    /\ result.page = <<"get", "verify_cf">>
    /\ result.url = ChatUrl(IdX)
    /\ _is_active = Some(TRUE)
    /\ keep_alive = "sleeping"

\* The lifecycle state read from the session's two marks, and its place in
\* uninitialized, initializing, active, terminated (initializing, the part
\* of initialize before the marks are set, is no state of the session).
LifecycleRank ==
    IF _is_active = Some(FALSE) THEN 3
    ELSE IF _initialized THEN 2
    ELSE 0

InitializeInvoked ==
    calls' = calls + 1 /\ result'.op = "initialize"

\* C28, as stated: the lifecycle state only moves forward.
C28_ForwardOnly ==
    [][LifecycleRank' >= LifecycleRank]_vars

\* C28, amended: only initialize makes a session active, and no other
\* operation, no login that fails and no teardown makes a session that is
\* not active active or takes it back to an earlier state.
C28_OnlyInitializeActivates ==
    /\ [][(~LifecycleActive /\ LifecycleActive') => InitializeInvoked]_vars
    /\ [][(LifecycleRank' < LifecycleRank) => InitializeInvoked]_vars
    /\ [][(_initialized /\ ~InitializeInvoked) => _initialized']_vars

\* A switch of account whose login failed has left the session active.
C28_Witness ==
    /\ pc = "idle"
    /\ result.op = "switch_account"
    /\ result.kind = "InvalidCredentials"
    /\ LifecycleActive
    /\ calls = 2

\* C29: once the active flag is cleared the keep-alive task ends when it
\* next wakes; and the ending of the task, by the flag or by an exception,
\* changes nothing else: the session stays initialized and its operations
\* are not rejected.
C29_KeepAliveEnds ==
    /\ (keep_alive = "sleeping" /\ _is_active = Some(FALSE))
           ~> (keep_alive = "done")
    /\ [][(keep_alive = "sleeping" /\ keep_alive' = "done")
              => UNCHANGED <<obj, sessionVars, pc, call, result, calls,
                             storage, theme>>]_vars
    /\ [][(keep_alive = "done" /\ _initialized /\ calls' = calls + 1)
              => result'.kind # "MissingInitialization"]_vars

\* The task has ended while the session is active, and an operation
\* invoked on the session returned.
C29_Witness ==
    /\ keep_alive = "done"
    /\ LifecycleActive
    /\ pc = "idle"
    /\ result.op = "retrieve_token"
    /\ result.kind = "ok"

TornDownInFlight ==
    /\ _is_active = Some(FALSE)
    /\ pc \in {"poll_start", "poll_complete", "finish"}

SwitchedAccount ==
    /\ pc = "idle"
    /\ result.op = "switch_account"
    /\ result.kind \in {"ok", "InvalidCredentials"}

\* C32: switch_account with valid arguments removes the token from storage
\* and reloads the page before anything else, then holds exactly its three
\* arguments as the token, the email and the password (an argument not
\* given is held as absent), then logs in by token when a token was given
\* and by the form otherwise.  The login gives the page only values that
\* are arguments of the call: the token written to storage is the token
\* given, the form is filled with the email and password given, and the
\* form is tried after a failed token login only when both were given.
C32_SwitchOrder ==
    /\ (call.op = "switch_account" /\ pc \in {"login", "login_classic"})
           => /\ <<_token, _email, _password>> = result.args
              /\ call.page = <<"removeItem", "reload">>
              /\ (call.login.attempts = <<>>) =>
                     /\ storage = None
                     /\ pc = "login" <=> Truthy(result.args[1])
    /\ SwitchedAccount
           => LET t == result.args[1]
                  e == result.args[2]
                  p == result.args[3]
                  a == result.login.attempts
                  typed == IF Truthy(t) THEN Tail(result.used)
                           ELSE result.used
              IN /\ <<_token, _email, _password>> = <<t, e, p>>
                 /\ result.page = <<"removeItem", "reload">>
                 /\ a[1].method = IF Truthy(t) THEN "token" ELSE "classic"
                 /\ Truthy(t) => (result.used # <<>> /\ result.used[1] = t[1])
                 /\ Len(a) = 2 => (a[2].method = "classic" /\ Truthy(e)
                                   /\ Truthy(p) /\ ~a[1].ok)
                 /\ Len(a) \in {1, 2}
                 /\ typed \in {<<>>, e, e \o p}
                 /\ (a[Len(a)].method = "token") => typed = <<>>

\* A session logged in with an email and a password was switched to a token
\* alone; the token login failed, and the call ended with InvalidCredentials
\* without the form having been tried with the email and password held
\* before.
C32_Witness ==
    /\ SwitchedAccount
    /\ result.kind = "InvalidCredentials"
    /\ result.args = <<Some(TokenA), None, None>>
    /\ result.used = <<TokenA>>
    /\ result.login.attempts = <<Attempt("token", FALSE, FALSE)>>
    /\ _email = None
    /\ _password = None

\* The tier of find_send_button's heuristic that answers on page d: 1 by
\* visible text, 2 by accessibility label or title, 3 by nearness to the
\* textarea, 4 by icon; 0 when every tier is empty.
AnsweringTier(d) ==
    IF \E i \in 1..Len(d) : IsButton(d[i]) /\ d[i].send_text THEN 1
    ELSE IF \E i \in 1..Len(d) : IsButton(d[i]) /\ d[i].send_attr THEN 2
    ELSE IF ClosestButton(d) # 0 THEN 3
    ELSE IF LastIconButton(d) # 0 THEN 4
    ELSE 0

\* C33, as stated: find_send_button answers from the first non-empty tier
\* (send text, then send label or title, then the control nearest to the
\* textarea, then the last control with an icon), a lower tier being
\* consulted only when every higher one is empty, and the handle it
\* returns is the element that tier chose.
C33_TierChoiceReturned ==
    (located.button_called /\ AnsweringTier(dom) # 0)
        => LET t == AnsweringTier(dom)
               chosen ==
                   IF t = 1
                   THEN First({i \in 1..Len(dom) :
                                  IsButton(dom[i]) /\ dom[i].send_text})
                   ELSE IF t = 2
                   THEN First({i \in 1..Len(dom) :
                                  IsButton(dom[i]) /\ dom[i].send_attr})
                   ELSE IF t = 3 THEN ClosestButton(dom)
                   ELSE LastIconButton(dom)
           IN /\ chosen = ButtonScriptChoice(dom)
              /\ located.button_handle = chosen

\* The textareas of page d, and those whose placeholder holds a keyword.
Textareas(d) ==
    {i \in 1..Len(d) : d[i].tag = "textarea"}

KeywordTextareas(d) ==
    {i \in Textareas(d) : d[i].keyword}

\* C34, as stated, of the candidate find_textbox's ranking takes (the
\* element its selector is built from): a textarea with a keyword
\* placeholder is preferred over every one without; when no textarea has
\* one, the textarea taken is the one ranked best by nearness to the bottom
\* of the viewport and by larger area: no textarea as near the bottom is
\* larger than the one taken, and no textarea of the same area is nearer
\* the bottom.
C34_LargerAndLowerPreferred ==
    (located.called /\ Textareas(dom) # {})
        => LET h == ScriptChoice(dom)
           IN /\ h \in Textareas(dom)
              /\ KeywordTextareas(dom) # {} => h \in KeywordTextareas(dom)
              /\ KeywordTextareas(dom) = {} =>
                     \A j \in Textareas(dom) :
                         /\ dom[j].gap = dom[h].gap
                                => dom[j].area <= dom[h].area
                         /\ dom[j].area = dom[h].area
                                => dom[h].gap <= dom[j].gap

\* C35: the mode flags are changed by send_message alone, and by its
\* invocation: the step of any other operation (initialize and its login,
\* logout, switch_account and its login, switch_chat, reset_chat,
\* switch_theme, delete_chats, regenerate_response, retrieve_token), of the
\* polling, of the keep-alive task or of teardown leaves both as they were.
C35_OnlySendMessage ==
    [][(<<_deepthink_enabled, _search_enabled>>'
            # <<_deepthink_enabled, _search_enabled>>)
          => /\ pc = "idle"
             /\ calls' = calls + 1
             /\ result'.op = "send_message"]_vars

\* reset_chat returned on a session whose send_message calls had turned
\* both modes on, and both are still on.
C35_Witness ==
    /\ result.op = "reset_chat"
    /\ result.kind = "ok"
    /\ chat_id = Some(<<>>)
    /\ _deepthink_enabled
    /\ _search_enabled

\* The descendants of the dropdown that the search can reach, at most
\* DepthLimit descents below the dropdown's children, and whose full text
\* is "Delete all chats" whatever the case of its letters.
ReachableItems(m) ==
    {i \in 1..Len(m) :
        /\ m[i].depth <= DepthLimit + 1
        /\ Lower(TextAll(m, i)) = Lower(DeleteAllChats)}

\* C36: the search of the dropdown ends, compares the full text of a
\* descendant without regard to case, and goes down at most the depth
\* bound (10 descents below the dropdown's children): it returns the first
\* in document order of the descendants within that bound that carry the
\* text, and nothing when there is none.  delete_chats returns when the
\* search found the item and raises CouldNotFindElement when it did not,
\* having clicked the profile button and the dropdown and neither the item
\* nor the confirmation control.
C36_DepthFirstSearch ==
    /\ located.called
           => located.handle = First(ReachableItems(menu[1]))
    /\ (result.op = "delete_chats" /\ result.kind # "ProbeError")
           => /\ result.kind = IF ReachableItems(menu[1]) = {}
                               THEN "CouldNotFindElement" ELSE "ok"
              /\ result.page = IF result.kind = "ok"
                               THEN <<"profile", "dropdown", "item", "confirm">>
                               ELSE <<"profile", "dropdown">>

\* On a menu whose item hangs as deep as the search goes, under wrappers
\* that hold other text too and before a second entry of the same text that
\* is a child of the dropdown, the search returned the deep item and
\* delete_chats returned.
C36_Witness ==
    /\ menu = Some(Menu(DepthLimit + 1, DeleteAllChats, TRUE, TRUE, TRUE))
    /\ located.called
    /\ located.handle = DepthLimit + 2
    /\ result.op = "delete_chats"
    /\ result.kind = "ok"

\* The operation that just ended logged in by token: the token login wrote
\* the token and found the textbox.
LoggedInByToken ==
    /\ pc = "idle"
    /\ result.op \in {"initialize", "switch_account"}
    /\ result.kind = "ok"
    /\ result.login.attempts = <<Attempt("token", TRUE, FALSE)>>

\* C37, as stated: once token login has written the token T of the session
\* to storage as {value, version}, a retrieve_token that follows, with no
\* logout and no switch_account in between, returns T; and after logout the
\* storage holds no token.
C37_RoundTrip ==
    /\ [][(LoggedInByToken /\ calls' = calls + 1
           /\ result'.op = "retrieve_token")
              => (/\ result'.kind = "ok"
                  /\ result'.value = _token
                  /\ storage' = Some(StoredToken(_token[1])))]_vars
    /\ [][(calls' = calls + 1 /\ result'.op = "logout"
           /\ result'.kind = "ok") => storage' = None]_vars

\* C38: in a send_message call each option toggle is clicked at most once,
\* and only when the value asked for differs from the session's flag; the
\* flag changes exactly when its toggle is clicked; so each flag is on
\* exactly when the clicks made on its toggle are odd in number, and after
\* a call that located both toggles the flags are the values asked for.
C38_FlagsFollowClicks ==
    /\ [](/\ _deepthink_enabled = toggle_clicks["deepthink"]
          /\ _search_enabled = toggle_clicks["search"])
    /\ [][(calls' = calls + 1 /\ result'.op = "send_message"
           /\ result'.kind # "MissingInitialization")
              => LET tr == IF pc' = "idle" THEN result'.sent ELSE call'.sent
                     d == Count(tr.toggles, "deepthink")
                     s == Count(tr.toggles, "search")
                 IN /\ d <= 1 /\ s <= 1 /\ Len(tr.toggles) = d + s
                    /\ d = 1 => tr.deepthink # _deepthink_enabled
                    /\ s = 1 => tr.search # _search_enabled
                    /\ d = 1 <=> _deepthink_enabled' # _deepthink_enabled
                    /\ s = 1 <=> _search_enabled' # _search_enabled
                    /\ tr.located => /\ _deepthink_enabled' = tr.deepthink
                                     /\ _search_enabled' = tr.search]_vars

\* A send_message that asked for both modes on a session whose deepthink
\* mode was on already: it located the toggles, clicked the search toggle
\* alone, and both flags are on.
C38_Witness ==
    /\ result.op = "send_message"
    /\ result.kind = "CouldNotFindElement"
    /\ result.sent.located
    /\ result.sent.deepthink
    /\ result.sent.search
    /\ result.sent.toggles = <<"search">>
    /\ _deepthink_enabled
    /\ _search_enabled
    /\ toggle_clicks = [deepthink |-> TRUE, search |-> TRUE]

\* reset_chat has run and no switch_chat has succeeded since: the session
\* still holds the id given at construction (ChatSpec switches to other ids
\* only) and reset_chat has made its assignment.
ResetSinceLastSwitch ==
    /\ chat_id = Some(<<>>)
    /\ _chat_id = Some(IdX)

\* C39, as stated: a Reply carries the session's current chat id, the one
\* given at construction or by the last switch_chat that succeeded, and it
\* carries no identifier when reset_chat has run since.
C39_ReplyCarriesCurrentChat ==
    (pc = "idle" /\ result.op \in ExchangeOps /\ result.reply # None)
        => /\ result.reply[1].chat_id = _chat_id
           /\ ResetSinceLastSwitch => ~Truthy(result.reply[1].chat_id)

\* initialize or switch_account has returned without raising.
LoginReturned ==
    /\ pc = "idle"
    /\ result.op \in {"initialize", "switch_account"}
    /\ result.kind = "ok"

\* C40, as stated: when initialize or switch_account returns without
\* raising, the login located the textbox after its attempt.
C40_TextboxConfirmed ==
    LoginReturned => result.login.textbox_seen

\* C40, amended: when initialize or switch_account returns without raising,
\* either the login located the textbox, or the login that ended it was a
\* classic login that was classified as successful and did not take the
\* last resort.  A token login returns only with the textbox located, and
\* so does a classic login that took the last resort.
C40_ConfirmedUnlessClassified ==
    LoginReturned
        => LET a == result.login.attempts
           IN /\ a # <<>>
              /\ a[Len(a)].ok
              /\ a[Len(a)].method = "token" => result.login.textbox_seen
              /\ result.login.rechecked => result.login.textbox_seen
              /\ ~result.login.textbox_seen
                     => (a[Len(a)].method = "classic"
                         /\ ~result.login.rechecked)

\* initialize returned after a token login that failed and a classic login
\* that was classified as successful on a page where no textbox was found.
C40_Witness ==
    /\ LoginReturned
    /\ result.op = "initialize"
    /\ result.login.attempts =
           <<Attempt("token", FALSE, FALSE), Attempt("classic", TRUE, TRUE)>>
    /\ ~result.login.textbox_seen
    /\ ~result.login.rechecked

====
